---- MODULE Spec2Model ----
(***************************************************************************)
(* Model of the radar/map widget of terminalWeather (src/radar.py,         *)
(* class RadarDisplay): the feature rasterizer                             *)
(* (_process_overpass_features and its helpers), the compositor (render)   *)
(* and the refresh entry point (update_radar).                             *)
(*                                                                         *)
(* Geographic coordinates are integers counting ticks of 1/TicksPerDegree  *)
(* of a degree.  TicksPerDegree is a power of two, so every float          *)
(* operation of the projection is exact on these inputs and int() is the   *)
(* truncation toward zero of the exact quotient (TruncDiv).                *)
(* Raster intensities are integers k in 0..255 standing for k/255.0.       *)
(* A grid is a function from cells <<x, y>> (column, row) to a value; the  *)
(* Python value None for a grid is the empty function.                     *)
(***************************************************************************)
EXTENDS Integers, Sequences, FiniteSets, TLC

VARIABLES
    width,          \* self.width
    height,         \* self.height
    zoom,           \* self.zoom
    radar_data,     \* self.radar_data: the stored raster, or NoRaster
    road_map,       \* self.road_map: the glyph grid, or NoGrid
    style_map,      \* self.style_map: the style grid, or NoGrid
    canvas,         \* the canvas of the last render not yet invalidated
    last,           \* arguments and outcome of the last update_radar call
    writes,         \* cell writes of the last _process_overpass_features
    env,            \* the environment: the region's features, the location, the inputs explored
    unit,           \* a helper method called on its own: its arguments and, once run, its result
    app,            \* the application around the radar: its main loop, alarms and dialogs
    cache           \* self.cache_dir: the files of the feature-query cache, and the clock

vars == <<width, height, zoom, radar_data, road_map, style_map, canvas, last, writes, env, unit, app, cache>>

(***************************************************************************)
(* Bounds of the model                                                     *)
(***************************************************************************)
MaxWidth == 6
MaxHeight == 4
TicksPerDegree == 2 ^ 6
ClipFuel == 12

NoGrid == << >>
NoUnit == [op |-> "none", done |-> FALSE, in |-> << >>, out |-> << >>]
NoCache == [files |-> << >>, now |-> 0, fetched |-> << >>]
NoApp == [running |-> FALSE, first |-> FALSE, alarms |-> 0, widget |-> "none",
          outcome |-> "none", by |-> "none", timed |-> 0, weather |-> FALSE,
          radar |-> FALSE, saving |-> FALSE, save |-> "none"]
NoRaster == [w |-> 0, h |-> 0, px |-> << >>]
NoTag == ""

Cells(w, h) == (0 .. (w - 1)) \X (0 .. (h - 1))

Abs(n) == IF n < 0 THEN -n ELSE n

Min2(a, b) == IF a <= b THEN a ELSE b

Max2(a, b) == IF a >= b THEN a ELSE b

\* int(n / d) of Python for integers n and d # 0: the quotient truncated toward zero
TruncDiv(n, d) ==
    LET q == Abs(n) \div Abs(d)
    IN  IF (n < 0) = (d < 0) THEN q ELSE -q

SetMin(S) == CHOOSE m \in S : \A n \in S : m <= n

SetMax(S) == CHOOSE m \in S : \A n \in S : m >= n

(***************************************************************************)
(* _project_coords                                                         *)
(***************************************************************************)
NoTileBounds == [given |-> FALSE, lat1 |-> 0, lon1 |-> 0, lat2 |-> 0, lon2 |-> 0]

NoPoint == [ok |-> FALSE, x |-> 0, y |-> 0]

Point(px, py) == [ok |-> TRUE, x |-> px, y |-> py]

\* variant: the branch without tile bounds ignores the zoom level
ProjectPlain_NoZoom(lat, lon, center_lat, center_lon, w, h, z) ==
    Point((w \div 2) + TruncDiv((lon - center_lon) * w * 10, TicksPerDegree),
          (h \div 2) - TruncDiv((lat - center_lat) * w * 10, TicksPerDegree))

\* the branch without tile bounds: scale = width / (0.1 * 2 ** (11 - zoom)) cells per degree,
\* used for both axes
ProjectPlain(lat, lon, center_lat, center_lon, w, h, z) ==
    Point((w \div 2) + TruncDiv((lon - center_lon) * w * 10 * (2 ^ z), TicksPerDegree * (2 ^ 11)),
          (h \div 2) - TruncDiv((lat - center_lat) * w * 10 * (2 ^ z), TicksPerDegree * (2 ^ 11)))

\* variant: the branch with tile bounds clamps the cell into the viewport
ProjectTile_Clamped(lat, lon, center_lat, center_lon, w, h, z, tb) ==
    IF tb.lon2 = tb.lon1 \/ tb.lat1 = tb.lat2
    THEN NoPoint
    ELSE Point(Max2(0, Min2(w - 1, TruncDiv(w * (tb.lon2 - tb.lon1) + 2 * (lon - center_lon) * w,
                                            2 * (tb.lon2 - tb.lon1)))),
               Max2(0, Min2(h - 1, TruncDiv(h * (tb.lat1 - tb.lat2) + 2 * (center_lat - lat) * h,
                                            2 * (tb.lat1 - tb.lat2)))))

\* the branch with tile bounds; a zero span raises ZeroDivisionError, caught: None
ProjectTile(lat, lon, center_lat, center_lon, w, h, z, tb) ==
    IF tb.lon2 = tb.lon1 \/ tb.lat1 = tb.lat2
    THEN NoPoint
    ELSE LET x0 == TruncDiv(w * (tb.lon2 - tb.lon1) + 2 * (lon - center_lon) * w,
                            2 * (tb.lon2 - tb.lon1))
             y0 == TruncDiv(h * (tb.lat1 - tb.lat2) + 2 * (center_lat - lat) * h,
                            2 * (tb.lat1 - tb.lat2))
         IN  IF z # 11
             THEN Point((w \div 2) + TruncDiv((x0 - (w \div 2)) * (2 ^ z), 2 ^ 11),
                        (h \div 2) + TruncDiv((y0 - (h \div 2)) * (2 ^ z), 2 ^ 11))
             ELSE Point(x0, y0)

ProjectCoords(lat, lon, center_lat, center_lon, w, h, z, tb) ==
    IF tb.given
    THEN ProjectTile(lat, lon, center_lat, center_lon, w, h, z, tb)
    ELSE ProjectPlain(lat, lon, center_lat, center_lon, w, h, z)

(***************************************************************************)
(* The grids under construction: g.char_map, g.style_map, and g.writes,    *)
(* the set of cell writes performed so far, each tagged with the pass and  *)
(* the index of the element of data['elements'] that caused it.            *)
(***************************************************************************)
EmptyGrids(w, h) ==
    [char_map |-> [c \in Cells(w, h) |-> " "],
     style_map |-> [c \in Cells(w, h) |-> "map_background"],
     writes |-> {},
     raised |-> FALSE]

\* char_map[y, x] = ch; style_map[y, x] = st for every cell of cs.  numpy raises IndexError
\* for an index past the end; a negative index wraps around (neither occurs while the
\* guards of the callers hold, and both are visible in g.writes).
WriteCells(g, cs, ch, st, pass, elem) ==
    [g EXCEPT
        !.char_map = [c \in DOMAIN g.char_map |-> IF c \in cs THEN ch ELSE g.char_map[c]],
        !.style_map = [c \in DOMAIN g.style_map |-> IF c \in cs THEN st ELSE g.style_map[c]],
        !.writes = g.writes \cup {[pass |-> pass, elem |-> elem, x |-> c[1], y |-> c[2],
                                   ch |-> ch, style |-> st] : c \in cs}]

(***************************************************************************)
(* _draw_line_segment: clipping                                            *)
(***************************************************************************)
\* compute_code: the outcode as the set of its bits
ComputeCode(x, y, w, h) ==
    (IF x < 0 THEN {1} ELSE {}) \cup (IF x >= w THEN {2} ELSE {}) \cup
    (IF y < 0 THEN {4} ELSE {}) \cup (IF y >= h THEN {8} ELSE {})

Segment(status, x1, y1, x2, y2, iters) ==
    [status |-> status, x1 |-> x1, y1 |-> y1, x2 |-> x2, y2 |-> y2, iters |-> iters]

\* variant: the right and bottom intersections are taken at x = width and y = height
ClipIntersection_OnBoundary(code, x1, y1, x2, y2, w, h) ==
    IF 1 \in code
    THEN IF x2 = x1 THEN [zero |-> TRUE, x |-> 0, y |-> 0]
         ELSE [zero |-> FALSE, x |-> 0,
               y |-> TruncDiv(y1 * (x2 - x1) + (y2 - y1) * (0 - x1), x2 - x1)]
    ELSE IF 2 \in code
    THEN IF x2 = x1 THEN [zero |-> TRUE, x |-> 0, y |-> 0]
         ELSE [zero |-> FALSE, x |-> w,
               y |-> TruncDiv(y1 * (x2 - x1) + (y2 - y1) * (w - x1), x2 - x1)]
    ELSE IF 4 \in code
    THEN IF y2 = y1 THEN [zero |-> TRUE, x |-> 0, y |-> 0]
         ELSE [zero |-> FALSE, y |-> 0,
               x |-> TruncDiv(x1 * (y2 - y1) + (x2 - x1) * (0 - y1), y2 - y1)]
    ELSE IF y2 = y1 THEN [zero |-> TRUE, x |-> 0, y |-> 0]
         ELSE [zero |-> FALSE, y |-> h,
               x |-> TruncDiv(x1 * (y2 - y1) + (x2 - x1) * (h - y1), y2 - y1)]

\* the intersection chosen for outcode `code`; zero |-> TRUE where Python divides by zero
ClipIntersection(code, x1, y1, x2, y2, w, h) ==
    IF 1 \in code
    THEN IF x2 = x1 THEN [zero |-> TRUE, x |-> 0, y |-> 0]
         ELSE [zero |-> FALSE, x |-> 0,
               y |-> TruncDiv(y1 * (x2 - x1) + (y2 - y1) * (0 - x1), x2 - x1)]
    ELSE IF 2 \in code
    THEN IF x2 = x1 THEN [zero |-> TRUE, x |-> 0, y |-> 0]
         ELSE [zero |-> FALSE, x |-> w - 1,
               y |-> TruncDiv(y1 * (x2 - x1) + (y2 - y1) * (w - 1 - x1), x2 - x1)]
    ELSE IF 4 \in code
    THEN IF y2 = y1 THEN [zero |-> TRUE, x |-> 0, y |-> 0]
         ELSE [zero |-> FALSE, y |-> 0,
               x |-> TruncDiv(x1 * (y2 - y1) + (x2 - x1) * (0 - y1), y2 - y1)]
    ELSE IF y2 = y1 THEN [zero |-> TRUE, x |-> 0, y |-> 0]
         ELSE [zero |-> FALSE, y |-> h - 1,
               x |-> TruncDiv(x1 * (y2 - y1) + (x2 - x1) * (h - 1 - y1), y2 - y1)]

\* the `while True` loop of the clipping; status is "inside" (break), "rejected" (return),
\* "raise" (ZeroDivisionError) or "diverged" (ClipFuel iterations without leaving the loop)
RECURSIVE ClipLoop(_, _, _, _, _, _, _)
ClipLoop(x1, y1, x2, y2, w, h, n) ==
    LET code1 == ComputeCode(x1, y1, w, h)
        code2 == ComputeCode(x2, y2, w, h)
    IN  IF code1 \cup code2 = {}
        THEN Segment("inside", x1, y1, x2, y2, n)
        ELSE IF code1 \cap code2 # {}
        THEN Segment("rejected", x1, y1, x2, y2, n)
        ELSE IF n >= ClipFuel
        THEN Segment("diverged", x1, y1, x2, y2, n)
        ELSE LET code == IF code1 # {} THEN code1 ELSE code2
                 p == ClipIntersection(code, x1, y1, x2, y2, w, h)
             IN  IF p.zero
                 THEN Segment("raise", x1, y1, x2, y2, n)
                 ELSE IF code = code1
                 THEN ClipLoop(p.x, p.y, x2, y2, w, h, n + 1)
                 ELSE ClipLoop(x1, y1, p.x, p.y, w, h, n + 1)

ClipSegment(x1, y1, x2, y2, w, h) == ClipLoop(x1, y1, x2, y2, w, h, 0)

(***************************************************************************)
(* _draw_line_segment: the Bresenham walk                                  *)
(***************************************************************************)
\* the guard of each cell write of the walk: column and row inside the grid
CellInGrid(col, row, w, h) == 0 <= col /\ col < w /\ 0 <= row /\ row < h

\* the cells written for x = xa .. xb, as <<column, row>>
RECURSIVE WalkCells(_, _, _, _, _, _, _, _, _, _)
WalkCells(x, xb, y, error, dx, dy, y_step, steep, w, h) ==
    IF x > xb
    THEN {}
    ELSE LET col == IF steep THEN y ELSE x
             row == IF steep THEN x ELSE y
             here == IF CellInGrid(col, row, w, h) THEN {<<col, row>>} ELSE {}
             e1 == error - dy
         IN  here \cup
             (IF e1 < 0
              THEN WalkCells(x + 1, xb, y + y_step, e1 + dx, dx, dy, y_step, steep, w, h)
              ELSE WalkCells(x + 1, xb, y, e1, dx, dy, y_step, steep, w, h))

\* variant: the walk always iterates over x, steep segments included
BresenhamCells_NeverSteep(cx1, cy1, cx2, cy2, w, h) ==
    LET ax1 == IF cx1 > cx2 THEN cx2 ELSE cx1
        ay1 == IF cx1 > cx2 THEN cy2 ELSE cy1
        ax2 == IF cx1 > cx2 THEN cx1 ELSE cx2
        ay2 == IF cx1 > cx2 THEN cy1 ELSE cy2
        dx == ax2 - ax1
        dy == Abs(ay2 - ay1)
    IN  WalkCells(ax1, ax2, ay1, dx \div 2, dx, dy, IF ay1 < ay2 THEN 1 ELSE -1, FALSE, w, h)

\* the cells of the clipped segment (cx1, cy1) - (cx2, cy2)
BresenhamCells(cx1, cy1, cx2, cy2, w, h) ==
    LET steep == Abs(cy2 - cy1) > Abs(cx2 - cx1)
        sx1 == IF steep THEN cy1 ELSE cx1
        sy1 == IF steep THEN cx1 ELSE cy1
        sx2 == IF steep THEN cy2 ELSE cx2
        sy2 == IF steep THEN cx2 ELSE cy2
        ax1 == IF sx1 > sx2 THEN sx2 ELSE sx1
        ay1 == IF sx1 > sx2 THEN sy2 ELSE sy1
        ax2 == IF sx1 > sx2 THEN sx1 ELSE sx2
        ay2 == IF sx1 > sx2 THEN sy1 ELSE sy2
        dx == ax2 - ax1
        dy == Abs(ay2 - ay1)
    IN  WalkCells(ax1, ax2, ay1, dx \div 2, dx, dy, IF ay1 < ay2 THEN 1 ELSE -1, steep, w, h)

NoGeo == [given |-> FALSE, lat1 |-> 0, lon1 |-> 0, lat2 |-> 0, lon2 |-> 0]

Geo(a, b) == [given |-> TRUE, lat1 |-> a.lat, lon1 |-> a.lon, lat2 |-> b.lat, lon2 |-> b.lon]

\* line_char: '|' when d_lon < d_lat * 0.7
LineChar(char, geo) ==
    IF geo.given /\ 10 * Abs(geo.lon2 - geo.lon1) < 7 * Abs(geo.lat2 - geo.lat1)
    THEN "|"
    ELSE char

DrawLineSegment(g, x1, y1, x2, y2, char, style, geo, w, h, pass, elem) ==
    LET seg == ClipSegment(x1, y1, x2, y2, w, h)
    IN  IF g.raised
        THEN g
        ELSE IF seg.status = "inside"
        THEN WriteCells(g, BresenhamCells(seg.x1, seg.y1, seg.x2, seg.y2, w, h),
                        LineChar(char, geo), style, pass, elem)
        ELSE IF seg.status = "rejected"
        THEN g
        ELSE [g EXCEPT !.raised = TRUE]

(***************************************************************************)
(* Overpass elements.  An element is a record                              *)
(*   [type, id, lat, lon, nodes, members, has_tags, tags]                  *)
(* with type "node", "way" or "relation"; tags has every key the code      *)
(* reads, NoTag standing for an absent key; a name is a sequence of        *)
(* one-character strings; population is the value int() gives for the tag  *)
(* ('0' when absent) and population_ok tells whether int() accepts it.     *)
(***************************************************************************)
NoTags ==
    [highway |-> NoTag, natural |-> NoTag, water |-> NoTag, waterway |-> NoTag,
     place |-> NoTag, landuse |-> NoTag, leisure |-> NoTag, name |-> << >>, population |-> 0,
     population_ok |-> TRUE]

Node(id, lat, lon) ==
    [type |-> "node", id |-> id, lat |-> lat, lon |-> lon, nodes |-> << >>,
     members |-> << >>, has_tags |-> FALSE, tags |-> NoTags]

PlaceNode(id, lat, lon, place, name, population) ==
    [type |-> "node", id |-> id, lat |-> lat, lon |-> lon, nodes |-> << >>,
     members |-> << >>, has_tags |-> TRUE,
     tags |-> [NoTags EXCEPT !.place = place, !.name = name, !.population = population]]

Way(id, refs, tags) ==
    [type |-> "way", id |-> id, lat |-> 0, lon |-> 0, nodes |-> refs,
     members |-> << >>, has_tags |-> TRUE, tags |-> tags]

BareWay(id, refs) ==
    [type |-> "way", id |-> id, lat |-> 0, lon |-> 0, nodes |-> refs,
     members |-> << >>, has_tags |-> FALSE, tags |-> NoTags]

Relation(id, members, tags) ==
    [type |-> "relation", id |-> id, lat |-> 0, lon |-> 0, nodes |-> << >>,
     members |-> members, has_tags |-> TRUE, tags |-> tags]

Member(ref, role) == [type |-> "way", ref |-> ref, role |-> role]

\* the keys of the `nodes` and `ways` lookups built from data['elements']
NodeIds(elements) == {elements[i].id : i \in {j \in 1 .. Len(elements) : elements[j].type = "node"}}

WayIds(elements) == {elements[i].id : i \in {j \in 1 .. Len(elements) : elements[j].type = "way"}}

\* nodes[id] and ways[id]: a later element with the same id replaces an earlier one
LookupNode(elements, id) ==
    LET i == SetMax({j \in 1 .. Len(elements) : elements[j].type = "node" /\ elements[j].id = id})
    IN  [lat |-> elements[i].lat, lon |-> elements[i].lon]

LookupWay(elements, id) ==
    elements[SetMax({j \in 1 .. Len(elements) : elements[j].type = "way" /\ elements[j].id = id})]

\* [nodes[ref] for ref in refs if ref in nodes]
ResolveRefs(refs, elements) ==
    LET Known(ref) == ref \in NodeIds(elements)
        kept == SelectSeq(refs, Known)
    IN  [i \in 1 .. Len(kept) |-> LookupNode(elements, kept[i])]

\* variant: a reference missing from `nodes` yields the coordinate (0, 0) instead of
\* being dropped
LineCoords_DefaultOrigin(element, elements) ==
    [i \in 1 .. Len(element.nodes) |->
        IF element.nodes[i] \in NodeIds(elements)
        THEN LookupNode(elements, element.nodes[i])
        ELSE [lat |-> 0, lon |-> 0]]

\* the coordinates of a way in the line passes (third and fifth pass)
LineCoords(element, elements) == ResolveRefs(element.nodes, elements)

\* _get_element_coords, relation branch: the concatenated coordinates of the member ways
\* found in `ways` whose role is not 'inner'
RECURSIVE OuterCoords(_, _, _)
OuterCoords(members, k, elements) ==
    IF k > Len(members)
    THEN << >>
    ELSE LET m == members[k]
             here == IF m.type = "way" /\ m.ref \in WayIds(elements) /\ m.role # "inner"
                     THEN ResolveRefs(LookupWay(elements, m.ref).nodes, elements)
                     ELSE << >>
         IN  here \o OuterCoords(members, k + 1, elements)

\* variant: in a way a reference missing from `nodes` yields the coordinate (0, 0)
GetElementCoords_DefaultOrigin(element, elements) ==
    IF element.type = "way"
    THEN [i \in 1 .. Len(element.nodes) |->
            IF element.nodes[i] \in NodeIds(elements)
            THEN LookupNode(elements, element.nodes[i])
            ELSE [lat |-> 0, lon |-> 0]]
    ELSE IF element.type = "relation"
    THEN OuterCoords(element.members, 1, elements)
    ELSE << >>

GetElementCoords(element, elements) ==
    IF element.type = "way"
    THEN ResolveRefs(element.nodes, elements)
    ELSE IF element.type = "relation"
    THEN OuterCoords(element.members, 1, elements)
    ELSE << >>

\* the projection context of one _process_overpass_features call
Ctx(elements, w, h, center_lat, center_lon, z, tb) ==
    [elements |-> elements, w |-> w, h |-> h, center_lat |-> center_lat,
     center_lon |-> center_lon, z |-> z, tb |-> tb]

\* _project_coords_list: the projections that are not None, in order
ProjectCoordsList(coords, cx) ==
    LET proj == [i \in 1 .. Len(coords) |->
                    ProjectCoords(coords[i].lat, coords[i].lon, cx.center_lat, cx.center_lon,
                                  cx.w, cx.h, cx.z, NoTileBounds)]
        Ok(p) == p.ok
    IN  SelectSeq(proj, Ok)

(***************************************************************************)
(* _point_in_polygon and the polygon fills                                 *)
(***************************************************************************)
\* variant: the straddle test compares one end of the edge with >= and the other with >
EdgeCrosses_LopsidedStraddle(x, y, polygon, i) ==
    LET pi == polygon[i]
        pj == polygon[IF i = 1 THEN Len(polygon) ELSE i - 1]
        d == pj.y - pi.y
        n == (pj.x - pi.x) * (y - pi.y)
    IN  /\ (pi.y >= y) # (pj.y > y)
        /\ IF d > 0 THEN (x - pi.x) * d < n ELSE (x - pi.x) * d > n

\* edge i of the ring (from polygon[j] to polygon[i], j the index before i, cyclically)
\* toggles `inside` for the test point (x, y)
EdgeCrosses(x, y, polygon, i) ==
    LET pi == polygon[i]
        pj == polygon[IF i = 1 THEN Len(polygon) ELSE i - 1]
        d == pj.y - pi.y
        n == (pj.x - pi.x) * (y - pi.y)
    IN  /\ (pi.y > y) # (pj.y > y)
        /\ IF d > 0 THEN (x - pi.x) * d < n ELSE (x - pi.x) * d > n

PointInPolygon(x, y, polygon) ==
    IF Len(polygon) < 3
    THEN FALSE
    ELSE Cardinality({i \in 1 .. Len(polygon) : EdgeCrosses(x, y, polygon, i)}) % 2 = 1

\* the test of the fill passes on the projected ring
RingUsable(coords_2d) == Len(coords_2d) >= 3

\* the cells scanned by the water and land fills: the bounding box clamped to the viewport
FillBox(coords_2d, w, h) ==
    LET xs == {coords_2d[i].x : i \in 1 .. Len(coords_2d)}
        ys == {coords_2d[i].y : i \in 1 .. Len(coords_2d)}
        min_x == Max2(0, SetMin(xs))
        max_x == Min2(w, SetMax(xs) + 1)
        min_y == Max2(0, SetMin(ys))
        max_y == Min2(h, SetMax(ys) + 1)
    IN  {c \in (min_x .. (max_x - 1)) \X (min_y .. (max_y - 1)) :
            0 <= c[1] /\ c[1] < w /\ 0 <= c[2] /\ c[2] < h}

\* the cells a bounding-box fill writes
FillCells(coords_2d, w, h) ==
    IF RingUsable(coords_2d)
    THEN {c \in FillBox(coords_2d, w, h) : PointInPolygon(c[1], c[2], coords_2d)}
    ELSE {}

\* the cells the land-use fill writes: it scans the whole grid
AreaCells(coords_2d, w, h) ==
    IF RingUsable(coords_2d)
    THEN {c \in Cells(w, h) : PointInPolygon(c[1], c[2], coords_2d)}
    ELSE {}

IsWaterBody(tags) ==
    \/ tags.place \in {"sea", "ocean", "bay", "strait", "sound"}
    \/ tags.natural = "water"
    \/ tags.water \in {"lake", "river", "reservoir"}

IsLandFeature(tags) ==
    \/ tags.place = "island"
    \/ tags.natural = "land"
    \/ tags.landuse \in {"residential", "commercial", "industrial"}

IsRiver(tags) ==
    tags.waterway = "river" \/ (tags.natural = "water" /\ tags.water = "river")

\* the style of the fourth pass, NoTag when the element is no land-use area
AreaStyle(tags) ==
    IF tags.landuse \in {"residential", "commercial", "industrial"}
    THEN "map_urban"
    ELSE IF tags.leisure \in {"park", "garden", "nature_reserve"} \/ tags.natural \in {"wood", "forest"}
    THEN "map_nature"
    ELSE NoTag

AreaChar(style) == IF style = "map_urban" THEN "O" ELSE "^"

(***************************************************************************)
(* _process_overpass_features: the six passes over data['elements']        *)
(***************************************************************************)
\* first pass, element i: large water bodies, filled
WaterElement(g, i, cx) ==
    LET e == cx.elements[i]
        coords == GetElementCoords(e, cx.elements)
    IN  IF e.type \in {"way", "relation"} /\ e.has_tags /\ IsWaterBody(e.tags) /\ Len(coords) > 0
        THEN WriteCells(g, FillCells(ProjectCoordsList(coords, cx), cx.w, cx.h),
                        "~", "map_water_fill", 1, i)
        ELSE g

\* second pass, element i: land cut out of the water
LandElement(g, i, cx) ==
    LET e == cx.elements[i]
        coords == GetElementCoords(e, cx.elements)
    IN  IF e.type \in {"way", "relation"} /\ e.has_tags /\ IsLandFeature(e.tags) /\ Len(coords) > 0
        THEN WriteCells(g, FillCells(ProjectCoordsList(coords, cx), cx.w, cx.h),
                        " ", "map_land", 2, i)
        ELSE g

\* _draw_line_feature with fill=False: the segments between consecutive projected points
RECURSIVE DrawLineFeatureFrom(_, _, _, _, _, _, _, _)
DrawLineFeatureFrom(g, points, k, char, style, cx, pass, elem) ==
    IF k >= Len(points)
    THEN g
    ELSE DrawLineFeatureFrom(
             DrawLineSegment(g, points[k].x, points[k].y, points[k + 1].x, points[k + 1].y,
                             char, style, NoGeo, cx.w, cx.h, pass, elem),
             points, k + 1, char, style, cx, pass, elem)

DrawLineFeature(g, coords, char, style, cx, pass, elem) ==
    DrawLineFeatureFrom(g, ProjectCoordsList(coords, cx), 1, char, style, cx, pass, elem)

\* third pass, element i: rivers as lines
RiverElement(g, i, cx) ==
    LET e == cx.elements[i]
        coords == LineCoords(e, cx.elements)
    IN  IF e.type = "way" /\ e.has_tags /\ IsRiver(e.tags) /\ Len(coords) > 0
        THEN DrawLineFeature(g, coords, "~", "map_water", cx, 3, i)
        ELSE g

\* fourth pass, element i: urban and natural areas
AreaElement(g, i, cx) ==
    LET e == cx.elements[i]
        style == AreaStyle(e.tags)
        coords == GetElementCoords(e, cx.elements)
    IN  IF e.type \in {"way", "relation"} /\ e.has_tags /\ style # NoTag /\ Len(coords) > 0
        THEN WriteCells(g, AreaCells(ProjectCoordsList(coords, cx), cx.w, cx.h),
                        AreaChar(style), style, 4, i)
        ELSE g

\* road_filter of _fetch_overpass_data: the highway classes the query asks for at zoom z
RoadFilter(z) ==
    IF z >= 11 THEN {"motorway", "trunk", "primary", "secondary", "tertiary"}
    ELSE IF z >= 10 THEN {"motorway", "trunk", "primary"}
    ELSE {"motorway", "trunk"}

\* variant: the table of zoom 10 serves every zoom below 11
RoadChar_CoarseGate(highway_type, z) ==
    IF z >= 11
    THEN CASE highway_type = "motorway" -> "#"
           [] highway_type = "trunk" -> "="
           [] highway_type \in {"primary", "secondary", "tertiary"} -> "-"
           [] OTHER -> NoTag
    ELSE CASE highway_type = "motorway" -> "#"
           [] highway_type = "trunk" -> "="
           [] highway_type = "primary" -> "-"
           [] OTHER -> NoTag

\* the glyph of a highway class at zoom z, NoTag when the class is not drawn
RoadChar(highway_type, z) ==
    IF z >= 11
    THEN CASE highway_type = "motorway" -> "#"
           [] highway_type = "trunk" -> "="
           [] highway_type \in {"primary", "secondary", "tertiary"} -> "-"
           [] OTHER -> NoTag
    ELSE IF z >= 10
    THEN CASE highway_type = "motorway" -> "#"
           [] highway_type = "trunk" -> "="
           [] highway_type = "primary" -> "-"
           [] OTHER -> NoTag
    ELSE CASE highway_type = "motorway" -> "#"
           [] highway_type = "trunk" -> "="
           [] OTHER -> NoTag

\* the glyph and style of a way in the fifth pass; char = NoTag when it is not drawn
LineClass(tags, z) ==
    IF tags.waterway \in {"river", "stream", "canal"}
    THEN [char |-> "~", style |-> "map_water"]
    ELSE IF tags.highway # NoTag
    THEN [char |-> RoadChar(tags.highway, z), style |-> "map_road"]
    ELSE [char |-> NoTag, style |-> NoTag]

\* the segments of one way of the fifth pass, each projected without tile bounds
RECURSIVE DrawWaySegments(_, _, _, _, _, _, _)
DrawWaySegments(g, coords, k, char, style, cx, elem) ==
    IF k >= Len(coords)
    THEN g
    ELSE LET a == ProjectCoords(coords[k].lat, coords[k].lon, cx.center_lat, cx.center_lon,
                                cx.w, cx.h, cx.z, NoTileBounds)
             b == ProjectCoords(coords[k + 1].lat, coords[k + 1].lon, cx.center_lat,
                                cx.center_lon, cx.w, cx.h, cx.z, NoTileBounds)
             g1 == IF a.ok /\ b.ok
                   THEN DrawLineSegment(g, a.x, a.y, b.x, b.y, char, style,
                                        Geo(coords[k], coords[k + 1]), cx.w, cx.h, 5, elem)
                   ELSE g
         IN  DrawWaySegments(g1, coords, k + 1, char, style, cx, elem)

\* fifth pass, element i: roads and waterways
LineElement(g, i, cx) ==
    LET e == cx.elements[i]
        coords == LineCoords(e, cx.elements)
        cls == LineClass(e.tags, cx.z)
    IN  IF e.type = "way" /\ e.has_tags /\ Len(coords) > 0 /\ cls.char # NoTag
        THEN DrawWaySegments(g, coords, 1, cls.char, cls.style, cx, i)
        ELSE g

\* should_show of the label pass
ShouldShow(z, place_type, population) ==
    IF z >= 11 THEN TRUE
    ELSE IF z >= 10 THEN place_type \in {"city", "town"}
    ELSE IF z >= 7 THEN place_type = "city"
    ELSE IF z >= 6 THEN place_type = "city" /\ population >= 100000
    ELSE FALSE

\* int(element['tags'].get('population', '0')) raises ValueError: it is evaluated for a
\* city at zoom 6, and nothing in _process_overpass_features catches it
PopulationRaises(z, tags) == z < 7 /\ z >= 6 /\ tags.place = "city" /\ ~tags.population_ok

\* the guard of each character write of the label pass
\* variant: the guard of the label loop without the test against the right edge
LabelCellOk_NoRightEdge(pos_x, y, w, h) == 0 <= pos_x /\ 0 <= y /\ y < h

LabelCellOk(pos_x, y, w, h) == 0 <= pos_x /\ pos_x < w /\ 0 <= y /\ y < h

\* the characters of a label from index k on, the first one at column text_start_x
RECURSIVE DrawLabelChars(_, _, _, _, _, _, _)
DrawLabelChars(g, name, k, text_start_x, y, cx, elem) ==
    IF k > Len(name)
    THEN g
    ELSE LET pos_x == text_start_x + (k - 1)
             g1 == IF LabelCellOk(pos_x, y, cx.w, cx.h)
                   THEN WriteCells(g, {<<pos_x, y>>}, name[k], "map_label", 6, elem)
                   ELSE g
         IN  DrawLabelChars(g1, name, k + 1, text_start_x, y, cx, elem)

\* variant: the label starts half its length left of the anchor, off the grid if need be
TextStartX_Unclamped(x, name) == x - (Len(name) \div 2)

\* text_start_x = max(0, x - len(name)//2)
TextStartX(x, name) == Max2(0, x - (Len(name) \div 2))

\* the members of `places`: nodes tagged place=city or place=town
IsPlace(e) == e.type = "node" /\ e.has_tags /\ e.tags.place \in {"city", "town"}

\* sixth pass, element i: place labels
LabelElement(g, i, cx) ==
    LET e == cx.elements[i]
        name == e.tags.name
        p == ProjectCoords(e.lat, e.lon, cx.center_lat, cx.center_lon, cx.w, cx.h, cx.z, cx.tb)
        text_start_x == TextStartX(p.x, name)
        text_end_x == Min2(cx.w, text_start_x + Len(name))
    IN  IF IsPlace(e) /\ Len(name) > 0 /\ PopulationRaises(cx.z, e.tags)
        THEN [g EXCEPT !.raised = TRUE]
        ELSE IF
           /\ IsPlace(e)
           /\ Len(name) > 0
           /\ ShouldShow(cx.z, e.tags.place, e.tags.population)
           /\ p.ok
           /\ 0 <= p.x /\ p.x < cx.w /\ 0 <= p.y /\ p.y < cx.h
           /\ text_start_x < cx.w /\ text_end_x > 0
        THEN DrawLabelChars(g, name, 1, text_start_x, p.y, cx, i)
        ELSE g

\* one pass: its element step applied to the elements in input order; an exception raised
\* by a step ends the whole call
PassStep(pass, g, i, cx) ==
    CASE pass = 1 -> WaterElement(g, i, cx)
      [] pass = 2 -> LandElement(g, i, cx)
      [] pass = 3 -> RiverElement(g, i, cx)
      [] pass = 4 -> AreaElement(g, i, cx)
      [] pass = 5 -> LineElement(g, i, cx)
      [] OTHER -> LabelElement(g, i, cx)

RECURSIVE RunPass(_, _, _, _)
RunPass(pass, g, i, cx) ==
    IF i > Len(cx.elements) \/ g.raised
    THEN g
    ELSE RunPass(pass, PassStep(pass, g, i, cx), i + 1, cx)

\* variant: the land cut-outs run before the water fill
PassOrder_LandBeforeWater == <<2, 1, 3, 4, 5, 6>>

\* variant: the area fill runs after the road and waterway lines
PassOrder_AreasAfterLines == <<1, 2, 3, 5, 4, 6>>

\* the order in which the passes run
PassOrder == <<1, 2, 3, 4, 5, 6>>

RECURSIVE RunPasses(_, _, _)
RunPasses(g, k, cx) ==
    IF k > Len(PassOrder)
    THEN g
    ELSE RunPasses(RunPass(PassOrder[k], g, 1, cx), k + 1, cx)

\* feature data as update_radar receives it: None, or a dict with or without 'elements'
NoneData == [kind |-> "none", has_elements |-> FALSE, elements |-> << >>]

NoElementsData == [kind |-> "dict", has_elements |-> FALSE, elements |-> << >>]

Features(elements) == [kind |-> "dict", has_elements |-> TRUE, elements |-> elements]

\* data['elements'] is read for the debug listing before `if not data or 'elements' not
\* in data` is reached: None raises TypeError and a dict without the key raises KeyError
DebugListingRaises(data) == data.kind = "none" \/ ~data.has_elements

ProcessOverpassFeatures(data, w, h, center_lat, center_lon, z, tb) ==
    IF DebugListingRaises(data)
    THEN [EmptyGrids(w, h) EXCEPT !.raised = TRUE]
    ELSE IF data.kind = "none" \/ ~data.has_elements
    THEN EmptyGrids(w, h)
    ELSE RunPasses(EmptyGrids(w, h), 1, Ctx(data.elements, w, h, center_lat, center_lon, z, tb))

(***************************************************************************)
(* render: resampling and compositing                                      *)
(***************************************************************************)
\* Image.resize((sw, sh), NEAREST) of the stored raster: output pixel (x, y) takes the
\* source pixel under its centre; (radar_data * 255).astype('uint8') / 255.0 gives k/255.0
\* back for every k in 0..255
Resample(raster, sw, sh) ==
    [c \in Cells(sw, sh) |->
        raster.px[<<((2 * c[1] + 1) * raster.w) \div (2 * sw),
                    ((2 * c[2] + 1) * raster.h) \div (2 * sh)>>]]

\* variant: the minimum is 0.1 instead of 0.01
AboveMinimum_TenPercent(k) == 10 * k > 255

\* val > 0.01 for val = k/255.0
AboveMinimum(k) == 100 * k > 255

\* variant: the 'heavy' tier ends strictly below 0.6
SeverityStyle_StrictHeavy(k) ==
    IF 100 * k <= 8 * 255 THEN "radar_very_light"
    ELSE IF 100 * k <= 15 * 255 THEN "radar_light"
    ELSE IF 10 * k <= 3 * 255 THEN "radar_moderate"
    ELSE IF 10 * k < 6 * 255 THEN "radar_heavy"
    ELSE "radar_extreme"

\* the style chosen for a val = k/255.0 above the minimum
SeverityStyle(k) ==
    IF 100 * k <= 8 * 255 THEN "radar_very_light"
    ELSE IF 100 * k <= 15 * 255 THEN "radar_light"
    ELSE IF 10 * k <= 3 * 255 THEN "radar_moderate"
    ELSE IF 10 * k <= 6 * 255 THEN "radar_heavy"
    ELSE "radar_extreme"

\* variant: the first pass also leaves water and water-fill cells alone
SkippedInFirstPass_WaterToo(style) ==
    style \in {"map_label", "map_road", "map_water", "map_water_fill"}

\* the cells the first pass of the compositing leaves alone
SkippedInFirstPass(style) == style = "map_label" \/ style = "map_road"

\* display_style after the first pass
FirstPassStyle(styles, val, sw, sh) ==
    [c \in DOMAIN styles |->
        IF c \in Cells(sw, sh) /\ ~SkippedInFirstPass(styles[c]) /\ AboveMinimum(val[c])
        THEN SeverityStyle(val[c])
        ELSE styles[c]]

\* display_style after the second and third pass: roads, then labels, from self.style_map
OverlayStyle(display_style, styles, sw, sh) ==
    [c \in DOMAIN display_style |->
        IF c \in Cells(sw, sh) /\ styles[c] = "map_label" THEN "map_label"
        ELSE IF c \in Cells(sw, sh) /\ styles[c] = "map_road" THEN "map_road"
        ELSE display_style[c]]

\* variant: only roads are kept out of the radar pass and restored after it
CompositeStyle_LabelsUnprotected(styles, val, sw, sh) ==
    [c \in DOMAIN styles |->
        IF c \in Cells(sw, sh) /\ styles[c] # "map_road" /\ AboveMinimum(val[c])
        THEN SeverityStyle(val[c])
        ELSE styles[c]]

\* variant: only labels are kept out of the radar pass and restored after it
CompositeStyle_RoadsUnprotected(styles, val, sw, sh) ==
    [c \in DOMAIN styles |->
        IF c \in Cells(sw, sh) /\ styles[c] # "map_label" /\ AboveMinimum(val[c])
        THEN SeverityStyle(val[c])
        ELSE styles[c]]

CompositeStyle(styles, val, sw, sh) ==
    OverlayStyle(FirstPassStyle(styles, val, sw, sh), styles, sw, sh)

\* display_map: the copy of self.road_map; the second and third pass store the glyph of
\* self.road_map into it again
CompositeMap(glyphs, styles, sw, sh) ==
    [c \in DOMAIN glyphs |-> glyphs[c]]

NoCanvas ==
    [drawn |-> FALSE, blank |-> FALSE, maxcol |-> 0, maxrow |-> 0, scaled_width |-> 0,
     scaled_height |-> 0, h_offset |-> 0, v_offset |-> 0, val |-> << >>,
     display_map |-> << >>, display_style |-> << >>, text |-> << >>, attr |-> << >>]

\* the canvas when there is no raster or no glyph grid: maxrow lines of spaces
BlankCanvas(maxcol, maxrow) ==
    [NoCanvas EXCEPT !.drawn = TRUE, !.blank = TRUE, !.maxcol = maxcol, !.maxrow = maxrow,
                     !.text = [c \in Cells(maxcol, maxrow) |-> " "],
                     !.attr = [c \in Cells(maxcol, maxrow) |-> "None"]]

RenderCanvas(raster, glyphs, styles, maxcol, maxrow, w, h) ==
    LET sw == Min2(maxcol, w)
        sh == Min2(maxrow, h)
        h_offset == (maxcol - sw) \div 2
        v_offset == (maxrow - sh) \div 2
        val == Resample(raster, sw, sh)
        dmap == CompositeMap(glyphs, styles, sw, sh)
        dstyle == CompositeStyle(styles, val, sw, sh)
        Shown(c) == <<c[1] - h_offset, c[2] - v_offset>> \in Cells(sw, sh)
    IN  [drawn |-> TRUE, blank |-> FALSE, maxcol |-> maxcol, maxrow |-> maxrow,
         scaled_width |-> sw, scaled_height |-> sh, h_offset |-> h_offset,
         v_offset |-> v_offset, val |-> val, display_map |-> dmap, display_style |-> dstyle,
         text |-> [c \in Cells(maxcol, maxrow) |->
                      IF Shown(c) THEN dmap[<<c[1] - h_offset, c[2] - v_offset>>] ELSE " "],
         attr |-> [c \in Cells(maxcol, maxrow) |->
                      IF Shown(c) THEN dstyle[<<c[1] - h_offset, c[2] - v_offset>>] ELSE "None"]]

(***************************************************************************)
(* The widget: __init__, update_radar, render                              *)
(***************************************************************************)
NoCenter == [given |-> FALSE, lat |-> 0, lon |-> 0]

Center(lat, lon) == [given |-> TRUE, lat |-> lat, lon |-> lon]

NoCall ==
    [called |-> FALSE, image_ok |-> FALSE, data |-> NoneData, center |-> NoCenter,
     tile_bounds |-> NoTileBounds, raised |-> FALSE]

\* update_radar(radar_image_data, overpass_data, center_lat, center_lon, tile_bounds).
\* Every exception is caught and logged; what was assigned before it stays assigned.
UpdateRadar(image, data, center, tb) ==
    \E res \in {ProcessOverpassFeatures(data, width, height, center.lat, center.lon, zoom, tb)} :
    LET failed == ~image.ok \/ (center.given /\ res.raised)
    IN  /\ radar_data' = IF image.ok THEN [w |-> image.w, h |-> image.h, px |-> image.alpha]
                         ELSE radar_data
        /\ road_map' = IF failed THEN road_map
                       ELSE IF center.given THEN res.char_map
                       ELSE [c \in Cells(width, height) |-> " "]
        /\ style_map' = IF failed THEN style_map
                        ELSE IF center.given THEN res.style_map
                        ELSE [c \in Cells(width, height) |-> "map_background"]
        /\ writes' = IF image.ok /\ center.given THEN res.writes ELSE {}
        /\ canvas' = IF failed THEN canvas ELSE NoCanvas
        /\ last' = [called |-> TRUE, image_ok |-> image.ok, data |-> data, center |-> center,
                    tile_bounds |-> tb, raised |-> failed]
        /\ UNCHANGED <<width, height, zoom, env, unit, app, cache>>

\* variant: the compositing writes the tiers into self.style_map itself
Render_InPlace(maxcol, maxrow) ==
    /\ canvas' = IF radar_data = NoRaster \/ road_map = NoGrid THEN BlankCanvas(maxcol, maxrow)
                 ELSE RenderCanvas(radar_data, road_map, style_map, maxcol, maxrow, width, height)
    /\ style_map' = IF radar_data = NoRaster \/ road_map = NoGrid THEN style_map
                    ELSE RenderCanvas(radar_data, road_map, style_map, maxcol, maxrow,
                                      width, height).display_style
    /\ UNCHANGED <<width, height, zoom, radar_data, road_map, last, writes, env, unit, app, cache>>

\* render(size) with size = (maxcol, maxrow)
Render(maxcol, maxrow) ==
    /\ canvas' = IF radar_data = NoRaster \/ road_map = NoGrid
                 THEN BlankCanvas(maxcol, maxrow)
                 ELSE RenderCanvas(radar_data, road_map, style_map, maxcol, maxrow,
                                   width, height)
    /\ UNCHANGED <<width, height, zoom, radar_data, road_map, style_map, last, writes, env, unit, app, cache>>

(***************************************************************************)
(* Inputs: a small map around the origin, in ticks                         *)
(***************************************************************************)
Nodes ==
    <<Node(1, 0, 0), Node(2, 3, 3), Node(3, -2, -4), Node(4, 3, -3), Node(5, -3, 3),
      Node(6, 0, 6)>>

Tagged(key, value) ==
    CASE key = "highway" -> [NoTags EXCEPT !.highway = value]
      [] key = "natural" -> [NoTags EXCEPT !.natural = value]
      [] key = "water" -> [NoTags EXCEPT !.water = value]
      [] key = "waterway" -> [NoTags EXCEPT !.waterway = value]
      [] key = "place" -> [NoTags EXCEPT !.place = value]
      [] key = "landuse" -> [NoTags EXCEPT !.landuse = value]
      [] OTHER -> [NoTags EXCEPT !.leisure = value]

RoadP == <<Way(101, <<3, 1, 6>>, Tagged("highway", "primary"))>>
Stream == <<Way(102, <<4, 1, 5>>, Tagged("waterway", "stream"))>>
River == <<Way(103, <<2, 1, 3>>, Tagged("waterway", "river"))>>
Lake == <<Way(104, <<4, 2, 5, 3>>, Tagged("natural", "water"))>>
LakeRel ==
    <<BareWay(201, <<4, 2>>), BareWay(202, <<1, 2, 5>>), BareWay(203, <<6, 3>>),
      Relation(301, <<Member(201, "outer"), Member(202, "inner"), Member(203, ""),
                      Member(999, "outer")>>, Tagged("water", "lake"))>>
Island == <<Way(105, <<1, 2, 5>>, Tagged("place", "island"))>>
Park == <<Way(106, <<4, 1, 3>>, Tagged("leisure", "park"))>>
Urban == <<Way(107, <<1, 2, 6, 5>>, Tagged("landuse", "residential"))>>
DanglingRoad == <<Way(108, <<98, 99>>, Tagged("highway", "primary"))>>
DanglingRel ==
    <<BareWay(204, <<97, 98>>),
      Relation(302, <<Member(204, "outer"), Member(998, "outer")>>, Tagged("natural", "water"))>>
ShortWater == <<Way(109, <<2, 99, 3>>, Tagged("natural", "water"))>>
ShortPark == <<Way(110, <<5>>, Tagged("leisure", "park"))>>
City == <<PlaceNode(7, 0, 0, "city", <<"A", "B", "C">>, 200000)>>
Town == <<PlaceNode(8, 3, 3, "town", <<"X", "Y", "Z">>, 0)>>

\* one way per highway class along the same nodes, and a short one off the map
Roads ==
    <<Way(111, <<3, 1, 6>>, Tagged("highway", "motorway")),
      Way(112, <<3, 1, 6>>, Tagged("highway", "trunk")),
      Way(113, <<3, 1, 6>>, Tagged("highway", "primary")),
      Way(114, <<3, 1, 6>>, Tagged("highway", "secondary")),
      Way(115, <<3, 1, 6>>, Tagged("highway", "tertiary")),
      Way(116, <<3, 1, 6>>, Tagged("highway", "residential")),
      Way(117, <<3, 1, 6>>, Tagged("highway", "motorway_link")),
      Way(118, <<6>>, Tagged("highway", "motorway"))>>

\* place nodes at the centre of the map: cities above and below the population threshold,
\* a town, a city without a name, a village, and a city whose population tag is no number
Metropolis == <<PlaceNode(9, 0, 0, "city", <<"M">>, 100000)>>
SmallCity == <<PlaceNode(10, 0, 0, "city", <<"S">>, 99999)>>
Borough == <<PlaceNode(11, 0, 0, "town", <<"T">>, 150000)>>
Nameless == <<PlaceNode(12, 0, 0, "city", << >>, 500000)>>
Village == <<PlaceNode(13, 0, 0, "village", <<"V">>, 0)>>
Estimated ==
    <<[PlaceNode(14, 0, 0, "city", <<"E">>, 0) EXCEPT !.tags.population_ok = FALSE]>>

Places == Metropolis \o SmallCity \o Borough \o Nameless \o Village

PlaceLists == {Places, Places \o Estimated, Estimated \o Places, Town \o Estimated \o City}

\* rivers along a ring of nodes: a riverbank area (natural=water, water=river) and a
\* closed way tagged waterway=river
RiverBank ==
    <<Way(119, <<4, 2, 5, 3>>, [NoTags EXCEPT !.natural = "water", !.water = "river"])>>
RiverLoop == <<Way(120, <<4, 2, 5, 3, 4>>, Tagged("waterway", "river"))>>

RiverLists == {RiverBank, RiverLoop, River \o RiverLoop, RiverLoop \o RiverBank}

\* land inside the lake, tagged natural=land
Land == <<Way(121, <<1, 2, 5>>, Tagged("natural", "land"))>>

CutoutLists == {Lake \o Land, Land \o Lake, Land \o LakeRel \o Island}

\* a road through the node at which the town's label is anchored
Crossing == <<Way(122, <<2, 6>>, Tagged("highway", "primary"))>>

Catalogue ==
    {RoadP, Stream, River, Lake, LakeRel, Island, Park, Urban, DanglingRoad, DanglingRel,
     ShortWater, ShortPark, City, Town}

\* the feature lists: none, one or two catalogue entries in either order, after the nodes
FeatureLists ==
    {<< >>} \cup Catalogue \cup {p[1] \o p[2] : p \in {q \in Catalogue \X Catalogue : q[1] # q[2]}}

Levels == {0, 2, 3, 20, 21, 38, 39, 76, 77, 127, 153, 154, 255}

Uniform(k) == [ok |-> TRUE, w |-> 1, h |-> 1, alpha |-> [c \in Cells(1, 1) |-> k]]

Quartered(a, b) ==
    [ok |-> TRUE, w |-> 2, h |-> 2,
     alpha |-> [c \in Cells(2, 2) |-> IF c[1] = c[2] THEN a ELSE b]]

BadImage == [ok |-> FALSE, w |-> 0, h |-> 0, alpha |-> << >>]

TileBounds(lat1, lon1, lat2, lon2) ==
    [given |-> TRUE, lat1 |-> lat1, lon1 |-> lon1, lat2 |-> lat2, lon2 |-> lon2]

Call(image, data, center, tb) ==
    [image |-> image, data |-> data, center |-> center, tb |-> tb]

(***************************************************************************)
(* The environment of one behaviour: the features the map service holds    *)
(* for the region, the location of the application, and which inputs the   *)
(* behaviour explores (env.kind):                                          *)
(*   "geo"        every feature list, one raster, no tile bounds           *)
(*   "label"      place labels with and without tile bounds                *)
(*   "composite"  few feature lists, every raster, every render size       *)
(*   "failure"    fetches and decodes that fail between ones that succeed  *)
(*   "aligned"    a road and a label at one point, tile bounds or none     *)
(***************************************************************************)
Env(kind, features, center) == [kind |-> kind, features |-> features, center |-> center]

Viewports == {<<1, 1>>, <<MaxWidth - 1, MaxHeight - 1>>, <<MaxWidth, MaxHeight>>}

Zooms == {10, 11, 12}

Setup(viewport, z, e) == [width |-> viewport[1], height |-> viewport[2], zoom |-> z, env |-> e]

GeoSetups ==
    {Setup(v, z, Env("geo", f, c)) :
        v \in Viewports, z \in Zooms, f \in FeatureLists, c \in {Center(0, 0), Center(1, -2)}}

LabelSetups ==
    {Setup(v, z, Env("label", f, Center(0, 0))) :
        v \in Viewports, z \in Zooms,
        f \in {City, Town, City \o Town, RoadP \o City, Lake \o Town}}

CompositeSetups ==
    {Setup(v, 11, Env("composite", f, Center(0, 0))) :
        v \in {<<MaxWidth, MaxHeight>>},
        f \in {RoadP, RoadP \o Stream \o City, Lake \o Park \o Town}}

FailureSetups ==
    {Setup(<<MaxWidth, MaxHeight>>, 11, Env("failure", f, Center(0, 0))) :
        f \in {RoadP \o City, Lake}}

\* the zoom gates: the road classes at the zooms around the thresholds 10 and 11
RoadZooms == 8 .. 12

RoadSetups ==
    {Setup(v, z, Env("geo", Roads, c)) :
        v \in Viewports, z \in RoadZooms, c \in {Center(0, 0), Center(1, -2)}}

\* the place labels at the zooms around the thresholds 6, 7, 10 and 11
PlaceZooms == {5, 6, 7, 9, 10, 11}

PlaceSetups ==
    {Setup(v, z, Env("label", f, Center(0, 0))) :
        v \in Viewports, z \in PlaceZooms, f \in PlaceLists}

RiverSetups ==
    {Setup(v, z, Env("geo", f, c)) :
        v \in Viewports, z \in Zooms, f \in RiverLists, c \in {Center(0, 0), Center(1, -2)}}

CutoutSetups ==
    {Setup(v, z, Env("geo", f, c)) :
        v \in Viewports, z \in Zooms, f \in CutoutLists, c \in {Center(0, 0), Center(1, -2)}}

AlignedSetups ==
    {Setup(v, z, Env("aligned", Crossing \o Town, Center(0, 0))) : v \in Viewports, z \in Zooms}

\* the viewport of the worked example: 40 columns, 10 rows, a road through the centre
ExampleViewport == <<40, 10>>

ExampleSetups == {Setup(ExampleViewport, 11, Env("example", RoadP, Center(0, 0)))}

Setups ==
    GeoSetups \cup LabelSetups \cup CompositeSetups \cup FailureSetups \cup ExampleSetups
        \cup RoadSetups \cup PlaceSetups \cup RiverSetups \cup CutoutSetups
        \cup AlignedSetups

\* the update_radar calls explored in environment e
CallsOf(e) ==
    LET data == Features(Nodes \o e.features)
    IN  CASE e.kind \in {"geo", "example"} -> {Call(Uniform(127), data, e.center, NoTileBounds)}
          [] e.kind = "label" ->
                {Call(Uniform(127), data, e.center, tb) :
                    tb \in {NoTileBounds, TileBounds(4, -4, -4, 4), TileBounds(4, 2, -4, 2)}}
          [] e.kind = "aligned" ->
                {Call(Uniform(127), data, e.center, tb) :
                    tb \in {NoTileBounds, TileBounds(8, -8, -8, 8)}}
          [] e.kind = "composite" ->
                {Call(image, data, e.center, NoTileBounds) :
                    image \in {Uniform(k) : k \in Levels}
                              \cup {Quartered(0, 127), Quartered(255, 2)}}
          [] OTHER ->
                {Call(image, d, c, NoTileBounds) :
                    image \in {Uniform(127), BadImage},
                    d \in {data, NoneData, NoElementsData},
                    c \in {e.center, NoCenter}}

\* the sizes render is called with in environment e: the viewport, a larger box and a
\* smaller box; the "geo" behaviours stop at the rasterized grids
SizesOf(e, w, h) ==
    CASE e.kind = "geo" -> {}
      [] e.kind \in {"label", "example", "aligned"} -> {<<w, h>>}
      [] OTHER -> {<<w, h>>, <<w + 1, h + 2>>, <<Max2(1, w - 1), Max2(1, h - 1)>>}

(***************************************************************************)
(* Specification                                                           *)
(***************************************************************************)
\* __init__(width, height); zoom is a public attribute the application may set
Init ==
    /\ \E s \in Setups : width = s.width /\ height = s.height /\ zoom = s.zoom /\ env = s.env
    /\ radar_data = NoRaster
    /\ road_map = NoGrid
    /\ style_map = NoGrid
    /\ canvas = NoCanvas
    /\ last = NoCall
    /\ writes = {}
    /\ cache = NoCache
    /\ app = NoApp
    /\ unit = NoUnit

Next ==
    \/ \E c \in CallsOf(env) : UpdateRadar(c.image, c.data, c.center, c.tb)
    \/ \E size \in SizesOf(env, width, height) : Render(size[1], size[2])

Spec == Init /\ [][Next]_vars

(***************************************************************************)
(* _flood_fill_from_point, called on its own                               *)
(***************************************************************************)
MaxFillSide == 5

InBounds(x, y, w, h) == 0 <= x /\ x < w /\ 0 <= y /\ y < h

\* [(1,0), (-1,0), (0,1), (0,-1)] around (x, y), in the order of the code
Neighbours(x, y) == <<(<<x + 1, y>>), (<<x - 1, y>>), (<<x, y + 1>>), (<<x, y - 1>>)>>

\* variant: every cell counts as bounded by water
HasNeighbourStyled_Always(styles_in, x, y, w, h, wanted) == TRUE

\* some in-bounds 4-neighbour of (x, y) carries one of the styles
HasNeighbourStyled(styles_in, x, y, w, h, wanted) ==
    \E k \in 1 .. 4 :
        LET n == Neighbours(x, y)[k]
        IN  InBounds(n[1], n[2], w, h) /\ styles_in[n] \in wanted

\* numpy indexing along an axis of length n: i for 0 <= i < n, i + n for -n <= i < 0,
\* IndexError (-1 here) otherwise
NumpyIndex(i, n) ==
    IF 0 <= i /\ i < n THEN i
    ELSE IF -n <= i /\ i < 0 THEN i + n
    ELSE -1

\* the search for another starting point, rows y .. h-1: the first background cell of the
\* row with a 'map_water' neighbour becomes the start; after every row, found or not,
\* style_map[start_y, start_x] is read and a background value there ends the search;
\* the for-else returns when no row ended it
RECURSIVE FindStart(_, _, _, _, _, _)
FindStart(styles_in, w, h, y, start_x, start_y) ==
    IF y >= h
    THEN [status |-> "return", x |-> start_x, y |-> start_y, wrapped |-> FALSE]
    ELSE LET cand == {x \in 0 .. (w - 1) :
                        /\ styles_in[<<x, y>>] = "map_background"
                        /\ HasNeighbourStyled(styles_in, x, y, w, h, {"map_water"})}
             sx == IF cand # {} THEN SetMin(cand) ELSE start_x
             sy == IF cand # {} THEN y ELSE start_y
             ix == NumpyIndex(sx, w)
             iy == NumpyIndex(sy, h)
         IN  IF ix < 0 \/ iy < 0
             THEN [status |-> "raise", x |-> sx, y |-> sy, wrapped |-> FALSE]
             ELSE IF styles_in[<<ix, iy>>] = "map_background"
             THEN [status |-> "start", x |-> sx, y |-> sy, wrapped |-> ~InBounds(sx, sy, w, h)]
             ELSE FindStart(styles_in, w, h, y + 1, sx, sy)

\* the breadth-first loop: g holds the grids and the cells filled so far, in order
RECURSIVE FillLoop(_, _, _, _, _, _)
FillLoop(queue, seen, g, w, h, style) ==
    IF queue = << >>
    THEN g
    ELSE LET c == Head(queue)
             rest == Tail(queue)
         IN  IF \/ c \in seen
                \/ ~InBounds(c[1], c[2], w, h)
                \/ g.style_map[c] # "map_background"
                \/ ~HasNeighbourStyled(g.style_map, c[1], c[2], w, h,
                                       {"map_water", "map_water_fill"})
             THEN FillLoop(rest, seen, g, w, h, style)
             ELSE LET seen1 == seen \cup {c}
                      Fresh(n) == n \notin seen1 /\ InBounds(n[1], n[2], w, h)
                      g1 == [g EXCEPT !.char_map[c] = "~", !.style_map[c] = style,
                                      !.fills = Append(g.fills, c)]
                  IN  FillLoop(rest \o SelectSeq(Neighbours(c[1], c[2]), Fresh), seen1, g1,
                               w, h, style)

FloodFillFromPoint(chars_in, styles_in, w, h, start_x, start_y, style) ==
    LET g0 == [char_map |-> chars_in, style_map |-> styles_in, fills |-> << >>,
               raised |-> FALSE, searched |-> FALSE, wrapped |-> FALSE,
               start |-> <<start_x, start_y>>]
        invalid == \/ ~InBounds(start_x, start_y, w, h)
                   \/ styles_in[<<start_x, start_y>>] # "map_background"
        found == IF invalid
                 THEN FindStart(styles_in, w, h, 0, start_x, start_y)
                 ELSE [status |-> "start", x |-> start_x, y |-> start_y, wrapped |-> FALSE]
        g1 == [g0 EXCEPT !.searched = invalid, !.wrapped = found.wrapped,
                         !.start = <<found.x, found.y>>]
    IN  IF found.status = "raise" THEN [g1 EXCEPT !.raised = TRUE]
        ELSE IF found.status = "return" THEN g1
        ELSE FillLoop(<<(<<found.x, found.y>>)>>, {}, g1, w, h, style)

FloodFill ==
    /\ unit.op = "flood_fill" /\ ~unit.done
    /\ unit' = [unit EXCEPT !.done = TRUE,
                            !.out = FloodFillFromPoint(unit.in.char_map, unit.in.style_map,
                                                       unit.in.w, unit.in.h, unit.in.start_x,
                                                       unit.in.start_y, unit.in.style)]
    /\ UNCHANGED <<width, height, zoom, radar_data, road_map, style_map, canvas, last, writes, env, app, cache>>

\* grids for the fill: rings of water-styled cells on a background
Shift(S, o) == {<<c[1] + o[1], c[2] + o[2]>> : c \in S}

SquareRing == ((0 .. 2) \X (0 .. 2)) \ {<<1, 1>>}

WideRing == ((0 .. 3) \X (0 .. 2)) \ {<<1, 1>>, <<2, 1>>}

Diamond == {<<1, 0>>, <<0, 1>>, <<2, 1>>, <<1, 2>>}

BigDiamond ==
    {<<2, 0>>, <<1, 1>>, <<3, 1>>, <<0, 2>>, <<4, 2>>, <<1, 3>>, <<3, 3>>, <<2, 4>>}

OpenRing == SquareRing \ {<<2, 1>>}

RingShapes == {SquareRing, WideRing, Diamond, BigDiamond, OpenRing, {}}

FillGrid(w, h, ring, ring_style, roads) ==
    [w |-> w, h |-> h, ring |-> ring,
     style_map |-> [c \in Cells(w, h) |->
                        IF c \in ring THEN ring_style
                        ELSE IF c \in roads THEN "map_road"
                        ELSE "map_background"],
     char_map |-> [c \in Cells(w, h) |->
                        IF c \in ring THEN "~" ELSE IF c \in roads THEN "-" ELSE " "]]

FillGrids ==
    {FillGrid(w, h, Shift(shape, o), ring_style, roads) :
        w \in 3 .. MaxFillSide, h \in 3 .. MaxFillSide,
        shape \in RingShapes, o \in {<<0, 0>>, <<1, 1>>},
        ring_style \in {"map_water", "map_water_fill"},
        roads \in {{}, {<<0, 0>>}}}

FillCalls ==
    {[op |-> "flood_fill", done |-> FALSE, out |-> << >>,
      in |-> [char_map |-> g.char_map, style_map |-> g.style_map, w |-> g.w, h |-> g.h,
              ring |-> g.ring, start_x |-> seed[1], start_y |-> seed[2], style |-> style]] :
        g \in {f \in FillGrids : f.ring \subseteq Cells(f.w, f.h)},
        seed \in (-1 .. MaxFillSide) \X (-1 .. MaxFillSide),
        style \in {"map_water", "map_urban"}}

FloodInit ==
    /\ unit \in {u \in FillCalls : u.in.start_x <= u.in.w /\ u.in.start_y <= u.in.h}
    /\ width = unit.in.w
    /\ height = unit.in.h
    /\ zoom = 11
    /\ env = Env("flood_fill", << >>, NoCenter)
    /\ radar_data = NoRaster
    /\ road_map = NoGrid
    /\ style_map = NoGrid
    /\ canvas = NoCanvas
    /\ last = NoCall
    /\ writes = {}
    /\ cache = NoCache
    /\ app = NoApp

FloodNext == FloodFill

FloodSpec == FloodInit /\ [][FloodNext]_vars

(***************************************************************************)
(* _project_coords, called on its own                                      *)
(***************************************************************************)
MaxTicks == 6

ProjectZooms == 9 .. 13

Project ==
    /\ unit.op = "project" /\ ~unit.done
    /\ unit' = [unit EXCEPT !.done = TRUE,
                            !.out = ProjectCoords(unit.in.lat, unit.in.lon, unit.in.center.lat,
                                                  unit.in.center.lon, width, height, zoom,
                                                  unit.in.tile_bounds)]
    /\ UNCHANGED <<width, height, zoom, radar_data, road_map, style_map, canvas, last, writes, env, app, cache>>

ProjectCalls ==
    {[op |-> "project", done |-> FALSE, out |-> << >>,
      in |-> [lat |-> lat, lon |-> lon, center |-> center, tile_bounds |-> tb]] :
        lat \in (-MaxTicks) .. MaxTicks, lon \in (-MaxTicks) .. MaxTicks,
        center \in {Center(0, 0), Center(1, -2)},
        tb \in {NoTileBounds, TileBounds(4, -4, -4, 4), TileBounds(3, -2, -3, 4),
                TileBounds(4, 2, -4, 2)}}

ProjectInit ==
    /\ unit \in ProjectCalls
    /\ \E v \in Viewports : width = v[1] /\ height = v[2]
    /\ zoom \in ProjectZooms
    /\ env = Env("project", << >>, NoCenter)
    /\ radar_data = NoRaster
    /\ road_map = NoGrid
    /\ style_map = NoGrid
    /\ canvas = NoCanvas
    /\ last = NoCall
    /\ writes = {}
    /\ cache = NoCache
    /\ app = NoApp

ProjectNext == Project

ProjectSpec == ProjectInit /\ [][ProjectNext]_vars

(***************************************************************************)
(* _draw_line_segment, called on its own on empty grids                    *)
(***************************************************************************)
MaxReach == 3

\* _draw_line_segment(char_map, style_map, x1, y1, x2, y2, '-', 'map_road'): out.seg is
\* the state in which the clipping loop was left, out.cells the cells written
DrawLine ==
    /\ unit.op = "draw_line" /\ ~unit.done
    /\ \E g \in {DrawLineSegment(EmptyGrids(width, height), unit.in.x1, unit.in.y1,
                                 unit.in.x2, unit.in.y2, "-", "map_road", NoGeo,
                                 width, height, "unit", 0)} :
          unit' = [unit EXCEPT !.done = TRUE,
                               !.out = [seg |-> ClipSegment(unit.in.x1, unit.in.y1, unit.in.x2,
                                                            unit.in.y2, width, height),
                                        cells |-> {<<wr.x, wr.y>> : wr \in g.writes},
                                        raised |-> g.raised]]
    /\ UNCHANGED <<width, height, zoom, radar_data, road_map, style_map, canvas, last, writes, env, app, cache>>

\* integer endpoints up to MaxReach cells outside a w x h viewport
SegmentCalls(w, h) ==
    {[op |-> "draw_line", done |-> FALSE, out |-> << >>,
      in |-> [x1 |-> p[1], y1 |-> p[2], x2 |-> q[1], y2 |-> q[2]]] :
        p \in ((-MaxReach) .. (w - 1 + MaxReach)) \X ((-MaxReach) .. (h - 1 + MaxReach)),
        q \in ((-MaxReach) .. (w - 1 + MaxReach)) \X ((-MaxReach) .. (h - 1 + MaxReach))}

SegmentInit ==
    /\ \E v \in Viewports : width = v[1] /\ height = v[2]
    /\ unit \in SegmentCalls(width, height)
    /\ zoom = 11
    /\ env = Env("draw_line", << >>, NoCenter)
    /\ radar_data = NoRaster
    /\ road_map = NoGrid
    /\ style_map = NoGrid
    /\ canvas = NoCanvas
    /\ last = NoCall
    /\ writes = {}
    /\ cache = NoCache
    /\ app = NoApp

SegmentNext == DrawLine

SegmentSpec == SegmentInit /\ [][SegmentNext]_vars

(***************************************************************************)
(* _fetch_overpass_data and the cache files under self.cache_dir.          *)
(* Latitudes and longitudes are in units of 0.00001 degree, times in       *)
(* hours.  cache.files maps the paths that exist to [mtime, content]; the  *)
(* content is the JSON of a response, or "torn" for a file json.load       *)
(* rejects.                                                                *)
(***************************************************************************)
MaxHours == 24
MaxAgeHours == 24
BaseRadius == 5000

NoRadius == 0

Absent == [mtime |-> 0, content |-> "absent"]

NoFetch ==
    [done |-> FALSE, path |-> << >>, at |-> 0, before |-> Absent, requested |-> FALSE,
     net |-> "none", write |-> "none", result |-> "None"]

\* f"{lat:.4f}": the nearest multiple of 0.0001 degree (no input lies half-way)
Round4(u) == (u + 5) \div 10

\* radius = base_radius * (2 ** zoom_diff) when no radius is given
DefaultRadius(z) == IF z <= 11 THEN BaseRadius * (2 ^ (11 - z)) ELSE BaseRadius \div (2 ^ (z - 11))

\* _get_cache_path: overpass_{lat:.4f}_{lon:.4f}_{radius}_{self.zoom}.json
GetCachePath(lat, lon, radius, z) == <<Round4(lat), Round4(lon), radius, z>>

EntryAt(files, path) == IF path \in DOMAIN files THEN files[path] ELSE Absent

\* variant: an entry of exactly max_age_hours is still valid
IsCacheValid_Inclusive(files, path, now) ==
    path \in DOMAIN files /\ now - files[path].mtime <= MaxAgeHours

\* _is_cache_valid: the file exists and age < timedelta(hours=max_age_hours)
IsCacheValid(files, path, now) ==
    path \in DOMAIN files /\ now - files[path].mtime < MaxAgeHours

\* open(cache_path, 'w') and json.dump: the file is written, or open() fails and the file
\* is as before, or the dump fails part-way and leaves a file json.load rejects
WriteCache(files, path, now, data, write) ==
    IF write = "fail"
    THEN files
    ELSE [p \in DOMAIN files \cup {path} |->
              IF p = path
              THEN [mtime |-> now, content |-> IF write = "ok" THEN data ELSE "torn"]
              ELSE files[p]]

\* _fetch_overpass_data(lat, lon, radius): net is the response's JSON or "fail" (the request
\* or its decoding raises), write the outcome of the attempt to store it
FetchOverpassData(c, lat, lon, radius, z, net, write) ==
    LET r == IF radius = NoRadius THEN DefaultRadius(z) ELSE radius
        path == GetCachePath(lat, lon, r, z)
        before == EntryAt(c.files, path)
        hit == IsCacheValid(c.files, path, c.now) /\ before.content # "torn"
        call == [done |-> TRUE, path |-> path, at |-> c.now, before |-> before,
                 requested |-> ~hit, net |-> IF hit THEN "none" ELSE net,
                 write |-> IF hit \/ net = "fail" THEN "none" ELSE write, result |-> "None"]
    IN  IF hit
        THEN [c EXCEPT !.fetched = [call EXCEPT !.result = before.content]]
        ELSE IF net = "fail"
        THEN [c EXCEPT !.fetched = call]
        ELSE [c EXCEPT !.files = WriteCache(c.files, path, c.now, net, write),
                       !.fetched = [call EXCEPT !.result = net]]

Cacheless ==
    /\ UNCHANGED <<width, height, zoom, radar_data, road_map, style_map, canvas, last, writes,
                   env, unit, app>>

Fetch(lat, lon, radius, net, write) ==
    /\ cache' = FetchOverpassData(cache, lat, lon, radius, zoom, net, write)
    /\ Cacheless

\* time passes between two fetches
Elapse(hours) ==
    /\ cache.now + hours <= MaxHours
    /\ cache' = [cache EXCEPT !.now = @ + hours]
    /\ Cacheless

\* the locations asked for at zoom 11: two that share their four decimals, one that does
\* not; at the other zooms one location, with and without an explicit radius
Latitudes(z) == IF z = 11 THEN {4, 6, 14} ELSE {4}

Responses == {"v1", "v2"}

CacheInit ==
    /\ cache = [files |-> << >>, now |-> 0, fetched |-> NoFetch]
    /\ zoom \in {10, 11}
    /\ width = 1
    /\ height = 1
    /\ env = Env("cache", << >>, NoCenter)
    /\ radar_data = NoRaster
    /\ road_map = NoGrid
    /\ style_map = NoGrid
    /\ canvas = NoCanvas
    /\ last = NoCall
    /\ writes = {}
    /\ unit = NoUnit
    /\ app = NoApp

CacheNext ==
    \/ \E lat \in Latitudes(zoom), radius \in {NoRadius, BaseRadius},
          net \in Responses \cup {"fail"}, write \in {"ok", "fail", "torn"} :
             Fetch(lat, 0, radius, net, write)
    \/ Elapse(12)

CacheSpec == CacheInit /\ [][CacheNext]_vars

(***************************************************************************)
(* The application: WeatherApp, its main loop, its alarms and its dialogs  *)
(***************************************************************************)
MaxAlarms == 3

\* what one run of update_weather can meet: both requests answered ("ok"), the same with
\* the radar tile request failing (logged only), the same with _update_display raising,
\* HTTP 401 on the first request, a requests exception, a body that is not JSON
Outcomes == {"ok", "radar_down", "display", "unauthorized", "network", "invalid"}

\* the outcomes that reach self.loop.set_alarm_in(600, ...)
Scheduling == {"ok", "radar_down", "display"}

\* the outcomes that reach _show_error
Reporting == {"display", "unauthorized", "network", "invalid"}

\* _show_error(message): the error dialog is laid over the frame and becomes the widget
ShowError(a) == [a EXCEPT !.widget = "error"]

\* update_weather(), called by `by`, meeting `outcome`; timed is the parity of the number
\* of calls made by an alarm of update_weather
UpdateWeather(a, outcome, by) ==
    LET tried == [a EXCEPT !.outcome = outcome, !.by = by,
                           !.timed = IF by = "timer" THEN 1 - @ ELSE @]
        fetched == IF outcome \in Scheduling
                   THEN [tried EXCEPT !.weather = TRUE, !.alarms = @ + 1,
                                      !.radar = IF outcome = "radar_down" THEN @ ELSE TRUE]
                   ELSE tried
    IN  IF outcome \in Reporting THEN ShowError(fetched) ELSE fetched

\* run(): the main loop starts on the main view with the alarm of _first_update pending
Started ==
    [running |-> TRUE, first |-> TRUE, alarms |-> 0, widget |-> "frame",
     outcome |-> "none", by |-> "none", timed |-> 0, weather |-> FALSE, radar |-> FALSE,
     saving |-> FALSE, save |-> "none"]

Radarless ==
    /\ UNCHANGED <<width, height, zoom, radar_data, road_map, style_map, canvas, last, writes,
                   env, unit, cache>>

\* the alarm of run() fires: _first_update
FirstUpdate(outcome) ==
    /\ app.running /\ app.first
    /\ app' = UpdateWeather([app EXCEPT !.first = FALSE], outcome, "first")
    /\ Radarless

\* an alarm of update_weather fires: the lambda calls update_weather
AlarmFires(outcome) ==
    /\ app.running /\ app.alarms > 0
    /\ app' = UpdateWeather([app EXCEPT !.alarms = @ - 1], outcome, "timer")
    /\ Radarless

\* ErrorDialog._on_retry: the callback, then the main view; the dialog answered is no
\* longer that of a failed save
RetryPressed(outcome) ==
    /\ app.running /\ app.widget = "error"
    /\ outcome \in Scheduling => app.alarms < MaxAlarms
    /\ app' = [UpdateWeather([app EXCEPT !.save = "none"], outcome, "retry")
                 EXCEPT !.widget = "frame"]
    /\ Radarless

\* ErrorDialog._on_close: raise urwid.ExitMainLoop()
ExitPressed ==
    /\ app.running /\ app.widget = "error"
    /\ app' = [app EXCEPT !.running = FALSE]
    /\ Radarless

\* show_settings: the settings button of the main view
ShowSettings ==
    /\ app.running /\ app.widget = "frame"
    /\ app' = [app EXCEPT !.widget = "settings"]
    /\ Radarless

\* SettingsDialog._on_cancel: on_close is _close_dialog
CancelSettings ==
    /\ app.running /\ app.widget = "settings"
    /\ app' = [app EXCEPT !.widget = "frame"]
    /\ Radarless

\* SettingsDialog._on_save of TermWeather.py: the .env file is written or the write raises;
\* save records how the last save ended
SaveSettings(written, outcome) ==
    /\ env.kind = "app"
    /\ app.running /\ app.widget = "settings"
    /\ (written /\ outcome \in Scheduling) => app.alarms < MaxAlarms
    /\ app' = IF written
              THEN UpdateWeather([app EXCEPT !.widget = "frame", !.save = "written"], outcome,
                                 "settings")
              ELSE ShowError([app EXCEPT !.save = "failed"])
    /\ Radarless

\* SettingsDialog._on_save of dialogs/settings_dialog.py: the progress dialog is laid over
\* the frame and do_save is scheduled
OnSave ==
    /\ env.kind = "package"
    /\ app.running /\ app.widget = "settings" /\ ~app.saving
    /\ app' = [app EXCEPT !.widget = "progress", !.saving = TRUE]
    /\ Radarless

\* do_save of dialogs/settings_dialog.py: try, except (show_error, return), and the
\* finally clause that runs on both paths: the main view, then update_weather
DoSave(written, outcome) ==
    /\ app.running /\ app.saving
    /\ outcome \in Scheduling => app.alarms < MaxAlarms
    /\ LET tried == IF written
                    THEN [app EXCEPT !.save = "written"]
                    ELSE ShowError([app EXCEPT !.save = "failed"])
           finally == [tried EXCEPT !.widget = "frame", !.saving = FALSE]
       IN  app' = UpdateWeather(finally, outcome, "settings")
    /\ Radarless

AppInit ==
    /\ app = Started
    /\ width = 1
    /\ height = 1
    /\ zoom = 11
    /\ env \in {Env(kind, << >>, NoCenter) : kind \in {"app", "package"}}
    /\ radar_data = NoRaster
    /\ road_map = NoGrid
    /\ style_map = NoGrid
    /\ canvas = NoCanvas
    /\ last = NoCall
    /\ writes = {}
    /\ cache = NoCache
    /\ unit = NoUnit

AppNext ==
    \/ \E outcome \in Outcomes : FirstUpdate(outcome)
    \/ \E outcome \in Outcomes : AlarmFires(outcome)
    \/ \E outcome \in Outcomes : RetryPressed(outcome)
    \/ ExitPressed
    \/ ShowSettings
    \/ CancelSettings
    \/ \E written \in BOOLEAN, outcome \in Outcomes : SaveSettings(written, outcome)
    \/ OnSave
    \/ \E written \in BOOLEAN, outcome \in Outcomes : DoSave(written, outcome)

\* the main loop runs every alarm that is due; nothing makes the user press a button
AppFairness ==
    /\ WF_vars(\E outcome \in Outcomes : FirstUpdate(outcome))
    /\ WF_vars(\E outcome \in Outcomes : AlarmFires(outcome))
    /\ WF_vars(\E written \in BOOLEAN, outcome \in Outcomes : DoSave(written, outcome))

AppSpec == AppInit /\ [][AppNext]_vars /\ AppFairness

(***************************************************************************)
(* Vocabulary of the properties                                            *)
(***************************************************************************)
\* the last update_radar call decoded its image and called _process_overpass_features
\* on a dict with 'elements'
Attempted ==
    /\ last.called /\ last.image_ok /\ last.center.given
    /\ last.data.kind = "dict" /\ last.data.has_elements

\* ... and the call returned without an exception: the grids are those of last.data
Processed == Attempted /\ ~last.raised

\* the canvas holds a composited picture
Composited == canvas.drawn /\ ~canvas.blank

\* the cells of the grids that the canvas displays
Displayed == Cells(canvas.scaled_width, canvas.scaled_height)

AttrAt(c) == canvas.attr[<<c[1] + canvas.h_offset, c[2] + canvas.v_offset>>]

TextAt(c) == canvas.text[<<c[1] + canvas.h_offset, c[2] + canvas.v_offset>>]

WritesAt(c) == {wr \in writes : wr.x = c[1] /\ wr.y = c[2]}

\* the severity tier of the level k (v = k/255): the breakpoints 0.08, 0.15, 0.3 and 0.6
\* fall between the levels 20|21, 38|39, 76|77 and 153|154
TierOfLevel(k) ==
    IF k <= 20 THEN "radar_very_light"
    ELSE IF k <= 38 THEN "radar_light"
    ELSE IF k <= 76 THEN "radar_moderate"
    ELSE IF k <= 153 THEN "radar_heavy"
    ELSE "radar_extreme"

\* v <= 0.01 holds for the levels 0, 1 and 2 only
Invisible(k) == k <= 2

TierRank(style) ==
    CASE style = "radar_very_light" -> 1
      [] style = "radar_light" -> 2
      [] style = "radar_moderate" -> 3
      [] style = "radar_heavy" -> 4
      [] style = "radar_extreme" -> 5
      [] OTHER -> 0

(***************************************************************************)
(* C1: every cell write performed while rasterizing features (polygon      *)
(* fills, line segments, label characters) targets a cell (x, y) with      *)
(* 0 <= x < width and 0 <= y < height.                                     *)
(***************************************************************************)
C1_WritesInsideGrid ==
    \A wr \in writes : 0 <= wr.x /\ wr.x < width /\ 0 <= wr.y /\ wr.y < height

\* a label cut at the right edge of the viewport next to a drawn line: the label's element
\* wrote fewer cells than its name has characters, one of them in the last column
C1_Witness ==
    /\ Processed
    /\ \E wr \in writes :
          /\ wr.pass = 6
          /\ wr.x = width - 1
          /\ Cardinality({w2 \in writes : w2.pass = 6 /\ w2.elem = wr.elem})
                < Len(last.data.elements[wr.elem].tags.name)
    /\ \E wr \in writes : wr.pass = 5
    /\ width > 1

(***************************************************************************)
(* C2: after rasterizing and compositing, every displayed cell the label   *)
(* pass wrote a character into has style 'map_label' and shows the         *)
(* character the label pass left there, whatever the raster intensity and  *)
(* whatever other feature covers the cell.                                 *)
(***************************************************************************)
\* the character the label pass left at c: that of the last label written there
LabelCharAt(c) ==
    LET ws == {wr \in WritesAt(c) : wr.pass = 6}
        top == CHOOSE wr \in ws : \A w2 \in ws : w2.elem <= wr.elem
    IN  top.ch

C2_LabelsWin ==
    Composited =>
        \A c \in Displayed :
            (\E wr \in WritesAt(c) : wr.pass = 6) =>
                AttrAt(c) = "map_label" /\ TextAt(c) = LabelCharAt(c)

\* a displayed label cell that a road also crosses, under extreme precipitation
C2_Witness ==
    /\ Composited
    /\ \E c \in Displayed :
          /\ \E wr \in WritesAt(c) : wr.pass = 6
          /\ \E wr \in WritesAt(c) : wr.style = "map_road"
          /\ canvas.val[c] = 255
          /\ AttrAt(c) = "map_label"

(***************************************************************************)
(* C3: after compositing, every displayed cell whose feature-grid style is *)
(* 'map_road' still has style 'map_road', for every raster intensity.      *)
(***************************************************************************)
C3_RoadsStayRoads ==
    Composited =>
        \A c \in Displayed : style_map[c] = "map_road" => AttrAt(c) = "map_road"

\* a displayed road cell under extreme precipitation
C3_Witness ==
    /\ Composited
    /\ \E c \in Displayed :
          style_map[c] = "map_road" /\ canvas.val[c] = 255 /\ AttrAt(c) = "map_road"

C5_SeverityTiers ==
    Composited =>
        LET plain == {c \in Displayed : style_map[c] \notin {"map_label", "map_road"}}
        IN  /\ \A c \in plain :
                  AttrAt(c) = IF Invisible(canvas.val[c]) THEN style_map[c]
                              ELSE TierOfLevel(canvas.val[c])
            /\ \A c \in plain, d \in plain :
                  canvas.val[c] <= canvas.val[d] => TierRank(AttrAt(c)) <= TierRank(AttrAt(d))
            /\ \A c \in plain : canvas.val[c] = 127 => AttrAt(c) = "radar_heavy"

\* one picture with a cell below the minimum that kept its style and a cell at 0.5
C5_Witness ==
    /\ Composited
    /\ \E c \in Displayed, d \in Displayed :
          /\ style_map[c] \notin {"map_label", "map_road"}
          /\ style_map[d] \notin {"map_label", "map_road"}
          /\ canvas.val[c] = 0 /\ AttrAt(c) = style_map[c]
          /\ canvas.val[d] = 127 /\ AttrAt(d) = "radar_heavy"

(***************************************************************************)
(* C6: for a roads-only feature set and a uniform raster of intensity v    *)
(* above the minimum, the composited style grid has 'map_road' on exactly  *)
(* the cells of the rasterized road path and the tier of v on every other  *)
(* cell (instance: a 40x10 viewport, a road from the centre, v = 0.5:      *)
(* 'map_road' along the path, 'radar_heavy' elsewhere).                    *)
(***************************************************************************)
\* every tagged element is a way that carries a highway tag and nothing else
RoadsOnly(data) ==
    \A i \in 1 .. Len(data.elements) :
        LET e == data.elements[i]
        IN  e.has_tags =>
                /\ e.type = "way"
                /\ e.tags.highway # NoTag
                /\ e.tags = [NoTags EXCEPT !.highway = e.tags.highway]

UniformRaster == radar_data # NoRaster /\ radar_data.w = 1 /\ radar_data.h = 1

C6_RoadsOverUniformRain ==
    (/\ Processed /\ Composited /\ RoadsOnly(last.data)
     /\ UniformRaster /\ ~Invisible(radar_data.px[<<0, 0>>])) =>
        \A c \in Displayed :
            AttrAt(c) = IF \E wr \in WritesAt(c) : wr.pass = 5
                        THEN "map_road"
                        ELSE TierOfLevel(radar_data.px[<<0, 0>>])

\* the 40x10 viewport under v = 0.5: the centre cell (20, 5) is on the road, the cell
\* above it shows 'radar_heavy'
C6_Witness ==
    /\ Processed /\ Composited /\ RoadsOnly(last.data) /\ UniformRaster
    /\ radar_data.px[<<0, 0>>] = 127
    /\ width = ExampleViewport[1] /\ height = ExampleViewport[2]
    /\ Displayed = Cells(width, height)
    /\ \E wr \in WritesAt(<<20, 5>>) : wr.pass = 5
    /\ AttrAt(<<20, 5>>) = "map_road"
    /\ AttrAt(<<20, 4>>) = "radar_heavy"

(***************************************************************************)
(* C7 as claimed: in the feature grid each cell carries the style of the   *)
(* highest-precedence class among the features covering it, label > road > *)
(* water / water-fill > area-fill > background, independent of the order   *)
(* of the features in the input.  (Cells of a land cut-out are left out.)  *)
(***************************************************************************)
ClassRank(style) ==
    CASE style = "map_label" -> 4
      [] style = "map_road" -> 3
      [] style \in {"map_water", "map_water_fill"} -> 2
      [] style \in {"map_urban", "map_nature"} -> 1
      [] OTHER -> 0

C8_FetchFailureGivesBackground ==
    (/\ last.called /\ last.image_ok /\ last.center.given
     /\ (last.data.kind = "none" \/ ~last.data.has_elements)) =>
        /\ road_map = [c \in Cells(width, height) |-> " "]
        /\ style_map = [c \in Cells(width, height) |-> "map_background"]
        /\ canvas.drawn => ~canvas.blank

(***************************************************************************)
(* C9: a way all of whose referenced nodes are absent, or a relation all   *)
(* of whose member ways are absent or have only absent nodes, is skipped:  *)
(* the call raises nothing, the element writes no cell, and the grids are  *)
(* those of the same input without it.                                     *)
(***************************************************************************)
WithoutElement(data, i) ==
    Features(SubSeq(data.elements, 1, i - 1) \o SubSeq(data.elements, i + 1, Len(data.elements)))

\* the grids of the last call's arguments with the data replaced by d
GridsOf(d) ==
    ProcessOverpassFeatures(d, width, height, last.center.lat, last.center.lon, zoom,
                            last.tile_bounds)

AllNodesAbsent(refs, elements) == \A k \in 1 .. Len(refs) : refs[k] \notin NodeIds(elements)

Dangling(e, elements) ==
    \/ e.type = "way" /\ e.nodes # << >> /\ AllNodesAbsent(e.nodes, elements)
    \/ /\ e.type = "relation" /\ e.members # << >>
       /\ \A k \in 1 .. Len(e.members) :
             \/ e.members[k].ref \notin WayIds(elements)
             \/ AllNodesAbsent(LookupWay(elements, e.members[k].ref).nodes, elements)

C9_DanglingSkipped ==
    Attempted =>
        \A i \in 1 .. Len(last.data.elements) :
            (last.data.elements[i].has_tags /\ Dangling(last.data.elements[i], last.data.elements)) =>
                /\ ~last.raised
                /\ \A wr \in writes : wr.elem # i
                /\ road_map = GridsOf(WithoutElement(last.data, i)).char_map
                /\ style_map = GridsOf(WithoutElement(last.data, i)).style_map

\* a road whose nodes are all missing, rasterized next to a feature that did write cells
C9_Witness ==
    /\ Processed
    /\ writes # {}
    /\ \E i \in 1 .. Len(last.data.elements) :
          /\ last.data.elements[i].has_tags
          /\ Dangling(last.data.elements[i], last.data.elements)
          /\ last.data.elements[i].tags.highway # NoTag

(***************************************************************************)
(* C10: a polygon feature (water body, land cut-out, area) that resolves   *)
(* to fewer than 3 projected points is not filled: its fill passes write   *)
(* no cell, and when no line pass draws it either the grids are those of   *)
(* the same input without it.                                              *)
(***************************************************************************)
\* the number of coordinates an element resolves to: the known nodes of a way, the known
\* nodes of the known non-inner member ways of a relation
KnownCount(refs, elements) == Cardinality({k \in 1 .. Len(refs) : refs[k] \in NodeIds(elements)})

RECURSIVE MemberCount(_, _, _)
MemberCount(members, k, elements) ==
    IF k > Len(members)
    THEN 0
    ELSE (IF members[k].ref \in WayIds(elements) /\ members[k].role # "inner"
          THEN KnownCount(LookupWay(elements, members[k].ref).nodes, elements)
          ELSE 0) + MemberCount(members, k + 1, elements)

ResolvedCount(e, elements) ==
    IF e.type = "way" THEN KnownCount(e.nodes, elements) ELSE MemberCount(e.members, 1, elements)

PolygonFeature(e) ==
    /\ e.type \in {"way", "relation"} /\ e.has_tags
    /\ (IsWaterBody(e.tags) \/ IsLandFeature(e.tags) \/ AreaStyle(e.tags) # NoTag)

DrawnAsLine(e) ==
    e.type = "way" /\ (IsRiver(e.tags) \/ LineClass(e.tags, zoom).char # NoTag)

C10_ShortPolygonUnfilled ==
    Attempted =>
        \A i \in 1 .. Len(last.data.elements) :
            LET e == last.data.elements[i]
            IN  (PolygonFeature(e) /\ ResolvedCount(e, last.data.elements) < 3) =>
                    /\ ~last.raised
                    /\ \A wr \in writes : wr.elem = i => wr.pass \notin {1, 2, 4}
                    /\ ~DrawnAsLine(e) =>
                          /\ road_map = GridsOf(WithoutElement(last.data, i)).char_map
                          /\ style_map = GridsOf(WithoutElement(last.data, i)).style_map

\* a water way with two known nodes out of three, rasterized next to a feature that did
\* write cells
C10_Witness ==
    /\ Processed
    /\ writes # {}
    /\ \E i \in 1 .. Len(last.data.elements) :
          /\ PolygonFeature(last.data.elements[i])
          /\ IsWaterBody(last.data.elements[i].tags)
          /\ ResolvedCount(last.data.elements[i], last.data.elements) = 2

(***************************************************************************)
(* C11: each polygon fill (water pass, land cut-out pass, land-use pass    *)
(* scanning the whole grid) changes only cells (x, y) inside the viewport  *)
(* with min_x <= x <= max_x and min_y <= y <= max_y of the projected ring. *)
(***************************************************************************)
\* the projected ring of element i of the last call
RingOf(i) ==
    ProjectCoordsList(GetElementCoords(last.data.elements[i], last.data.elements),
                      Ctx(last.data.elements, width, height, last.center.lat, last.center.lon,
                          zoom, last.tile_bounds))

InRingBox(x, y, ring) ==
    /\ \E k \in 1 .. Len(ring) : ring[k].x <= x
    /\ \E k \in 1 .. Len(ring) : x <= ring[k].x
    /\ \E k \in 1 .. Len(ring) : ring[k].y <= y
    /\ \E k \in 1 .. Len(ring) : y <= ring[k].y

C11_FillInsideBoundingBox ==
    Processed =>
        \A wr \in writes :
            wr.pass \in {1, 2, 4} =>
                /\ InRingBox(wr.x, wr.y, RingOf(wr.elem))
                /\ <<wr.x, wr.y>> \in Cells(width, height)

\* a land-use fill and a water fill that each wrote a cell while a cell of the viewport
\* lies outside the ring's bounding box
C11_Witness ==
    /\ Processed
    /\ \E wr \in writes :
          /\ wr.pass = 4
          /\ \E c \in Cells(width, height) : ~InRingBox(c[1], c[2], RingOf(wr.elem))
    /\ \E wr \in writes :
          /\ wr.pass = 1
          /\ \E c \in Cells(width, height) : ~InRingBox(c[1], c[2], RingOf(wr.elem))

(***************************************************************************)
(* C12: a flood fill seeded at a background cell enclosed by a closed ring *)
(* of water-styled cells changes only cells that were background and that  *)
(* had a 'map_water' or 'map_water_fill' 4-neighbour at the moment they    *)
(* were filled, and never changes a cell outside the ring, whatever the    *)
(* size of the background outside it.                                      *)
(***************************************************************************)
Flooded == unit.op = "flood_fill" /\ unit.done

WaterStyles == {"map_water", "map_water_fill"}

FourNeighbours(c) ==
    {<<c[1] + 1, c[2]>>, <<c[1] - 1, c[2]>>, <<c[1], c[2] + 1>>, <<c[1], c[2] - 1>>}

\* the cells reachable from S by 4-steps inside `open`
RECURSIVE Reach(_, _)
Reach(S, open) ==
    LET more == {c \in open \ S : FourNeighbours(c) \cap S # {}}
    IN  IF more = {} THEN S ELSE Reach(S \cup more, open)

\* the cells of the call's grid not enclosed by water-styled cells: those a 4-path of
\* cells without water style joins to the edge of the grid
OutsideOfRing ==
    LET all == Cells(unit.in.w, unit.in.h)
        dry == {c \in all : unit.in.style_map[c] \notin WaterStyles}
        edge == {c \in dry : c[1] = 0 \/ c[2] = 0 \/ c[1] = unit.in.w - 1 \/ c[2] = unit.in.h - 1}
    IN  Reach(edge, dry)

SeedCell == <<unit.in.start_x, unit.in.start_y>>

SeedEnclosed ==
    /\ SeedCell \in Cells(unit.in.w, unit.in.h)
    /\ unit.in.style_map[SeedCell] = "map_background"
    /\ SeedCell \notin OutsideOfRing

ChangedCells ==
    {c \in Cells(unit.in.w, unit.in.h) :
        \/ unit.out.style_map[c] # unit.in.style_map[c]
        \/ unit.out.char_map[c] # unit.in.char_map[c]}

\* the style of cell n when the k-th fill happened
StyleBeforeFill(k, n) ==
    IF \E j \in 1 .. (k - 1) : unit.out.fills[j] = n
    THEN unit.in.style
    ELSE unit.in.style_map[n]

C12_FloodFillStaysInside ==
    (Flooded /\ SeedEnclosed) =>
        /\ ~unit.out.raised
        /\ \A c \in ChangedCells :
              /\ unit.in.style_map[c] = "map_background"
              /\ c \notin OutsideOfRing
              /\ \E k \in 1 .. Len(unit.out.fills) : unit.out.fills[k] = c
        /\ \A k \in 1 .. Len(unit.out.fills) :
              \E n \in FourNeighbours(unit.out.fills[k]) \cap Cells(unit.in.w, unit.in.h) :
                  StyleBeforeFill(k, n) \in WaterStyles

\* the two cells inside a ring were filled while background cells lie outside the ring
C12_Witness ==
    /\ Flooded /\ SeedEnclosed
    /\ Cardinality(ChangedCells) = 2
    /\ \E c \in OutsideOfRing : unit.in.style_map[c] = "map_background"
    /\ \A c \in OutsideOfRing : unit.out.style_map[c] = unit.in.style_map[c]

(***************************************************************************)
(* C13 as claimed: when the seed is out of bounds or not background, the   *)
(* fill restarts from a background cell that has a water-styled            *)
(* 4-neighbour if the grid has one, and otherwise returns leaving both     *)
(* grids unchanged; it neither raises nor reads a cell outside the grid.   *)
(***************************************************************************)
SeedInvalid ==
    \/ SeedCell \notin Cells(unit.in.w, unit.in.h)
    \/ unit.in.style_map[SeedCell] # "map_background"

\* the background cells next to a 'map_water' cell
RestartCells ==
    {c \in Cells(unit.in.w, unit.in.h) :
        /\ unit.in.style_map[c] = "map_background"
        /\ \E n \in FourNeighbours(c) \cap Cells(unit.in.w, unit.in.h) :
              unit.in.style_map[n] = "map_water"}

RestartsOrReturns ==
    /\ ~unit.out.raised
    /\ IF RestartCells # {}
       THEN /\ unit.out.start \in RestartCells
            /\ unit.out.fills # << >>
            /\ unit.out.fills[1] = unit.out.start
       ELSE ChangedCells = {}

C13_InvalidSeedRestarts == (Flooded /\ SeedInvalid) => RestartsOrReturns

\* the part of C13 that the code keeps: a seed inside the grid that is not background
C13_InBoundsSeedRestarts ==
    (Flooded /\ SeedInvalid /\ SeedCell \in Cells(unit.in.w, unit.in.h)) => RestartsOrReturns

(***************************************************************************)
(* C14 as claimed: for every latitude/longitude and every non-degenerate   *)
(* bounds, project returns a cell (x, y) with 0 <= x < width and           *)
(* 0 <= y < height, also for points outside the geographic bounds.         *)
(***************************************************************************)
Projected == unit.op = "project" /\ unit.done

NonDegenerate(tb) == tb.given /\ tb.lon2 # tb.lon1 /\ tb.lat1 # tb.lat2

AtZoom11 ==
    ProjectCoords(unit.in.lat, unit.in.lon, unit.in.center.lat, unit.in.center.lon,
                  width, height, 11, unit.in.tile_bounds)

\* the offsets a (zoom z) and b (zoom 11) agree up to one cell of the coarser grid
ScalesWith(a, b) ==
    IF zoom <= 11
    THEN Abs(a * (2 ^ (11 - zoom)) - b) < 2 ^ (11 - zoom)
    ELSE Abs(a - b * (2 ^ (zoom - 11))) < 2 ^ (zoom - 11)

C15_ZoomScaling ==
    (Projected /\ unit.out.ok) =>
        /\ AtZoom11.ok
        /\ ScalesWith(unit.out.x - (width \div 2), AtZoom11.x - (width \div 2))
        /\ ScalesWith(unit.out.y - (height \div 2), AtZoom11.y - (height \div 2))
        /\ zoom = 10 =>
              /\ Abs(2 * (unit.out.x - (width \div 2)) - (AtZoom11.x - (width \div 2))) <= 1
              /\ Abs(2 * (unit.out.y - (height \div 2)) - (AtZoom11.y - (height \div 2))) <= 1

\* a point four cells east and two cells north of the centre at zoom 11, seen at zoom 10
C15_Witness ==
    /\ Projected /\ unit.out.ok
    /\ zoom = 10
    /\ AtZoom11.x - (width \div 2) = 4
    /\ unit.out.x - (width \div 2) = 2
    /\ AtZoom11.y - (height \div 2) = -2
    /\ unit.out.y - (height \div 2) = -1

(***************************************************************************)
(* C16 as claimed: after any sequence of update_radar calls, whether each  *)
(* succeeds or fails part-way, the stored raster, glyph grid and style     *)
(* grid all come from the same call, so a render never combines the raster *)
(* of one refresh with the feature grids of an earlier refresh (or with no *)
(* grids at all).                                                          *)
(***************************************************************************)
\* the three stored arrays are the products of the update_radar call c
AllFromCall(c) ==
    /\ c.image.ok
    /\ radar_data = [w |-> c.image.w, h |-> c.image.h, px |-> c.image.alpha]
    /\ IF c.center.given
       THEN LET res == ProcessOverpassFeatures(c.data, width, height, c.center.lat,
                                               c.center.lon, zoom, c.tb)
            IN  ~res.raised /\ road_map = res.char_map /\ style_map = res.style_map
       ELSE /\ road_map = [d \in Cells(width, height) |-> " "]
            /\ style_map = [d \in Cells(width, height) |-> "map_background"]

C16_SingleOrigin ==
    \/ radar_data = NoRaster /\ road_map = NoGrid /\ style_map = NoGrid
    \/ \E c \in CallsOf(env) : AllFromCall(c)

(***************************************************************************)
(* C17: render leaves the stored raster, the glyph grid (road_map) and the *)
(* style grid (style_map) unchanged, compositing on copies; a render of    *)
(* the same size with no update in between gives the same output again.    *)
(***************************************************************************)
C17_RenderIsPure ==
    [][(canvas'.drawn /\ last' = last) =>
          /\ radar_data' = radar_data
          /\ road_map' = road_map
          /\ style_map' = style_map
          /\ (canvas.drawn /\ canvas'.maxcol = canvas.maxcol /\ canvas'.maxrow = canvas.maxrow) =>
                canvas' = canvas]_vars

\* a rendered picture that shows a precipitation tier on a cell whose stored style is
\* still the background
C17_Witness ==
    /\ Composited
    /\ \E c \in Displayed :
          /\ style_map[c] = "map_background"
          /\ AttrAt(c) = "radar_heavy"
          /\ canvas.display_style[c] = "radar_heavy"


(***************************************************************************)
(* C18: the application keeps trying to connect: after an update_weather   *)
(* attempt that fails (HTTP 401, network error, invalid response) another  *)
(* attempt eventually happens on a timer, without the user pressing Retry, *)
(* for as long as the application runs.                                    *)
(***************************************************************************)
FailedAttempt == app.running /\ app.outcome \in {"unauthorized", "network", "invalid"}

C18_KeepsTrying ==
    \A b \in {0, 1} :
        (FailedAttempt /\ app.timed = b) ~> (~app.running \/ app.timed # b)

\* the same with an alarm pending when the attempt fails: then the alarm does fire
C18_PendingAlarmRetries ==
    \A b \in {0, 1} :
        (FailedAttempt /\ app.timed = b /\ app.alarms > 0) ~> (~app.running \/ app.timed # b)


(***************************************************************************)
(* C19: for every pair of integer endpoints and every viewport of at least *)
(* 1x1 cells, the clipping loop of _draw_line_segment terminates without a *)
(* division by zero; it ends either by rejecting the segment, and then no  *)
(* cell is written, or with both endpoints inside [0,width) x [0,height).  *)
(***************************************************************************)
LineDrawn == unit.op = "draw_line" /\ unit.done

EndpointsInside(seg) ==
    /\ CellInGrid(seg.x1, seg.y1, width, height)
    /\ CellInGrid(seg.x2, seg.y2, width, height)

C19_ClippingTerminates ==
    LineDrawn =>
        /\ unit.out.seg.status \in {"inside", "rejected"}
        /\ ~unit.out.raised
        /\ unit.out.seg.status = "rejected" => unit.out.cells = {}
        /\ unit.out.seg.status = "inside" => EndpointsInside(unit.out.seg)

\* a segment through a 1x1 viewport with both endpoints beyond a corner is clipped, in two
\* iterations or more, to the one cell
C19_Witness ==
    /\ LineDrawn
    /\ width = 1 /\ height = 1
    /\ unit.in.x1 < 0 /\ unit.in.y1 < 0 /\ unit.in.x2 > 0 /\ unit.in.y2 > 0
    /\ unit.out.seg.status = "inside"
    /\ unit.out.seg.iters >= 2
    /\ unit.out.cells = {<<0, 0>>}

(***************************************************************************)
(* C20: for a segment whose two endpoints are inside the viewport,         *)
(* _draw_line_segment writes exactly max(|dx|, |dy|) + 1 cells: one cell   *)
(* for each coordinate of the major axis, both endpoint cells included,    *)
(* and cells of consecutive major coordinates are 8-adjacent.              *)
(***************************************************************************)
BothInside ==
    /\ CellInGrid(unit.in.x1, unit.in.y1, width, height)
    /\ CellInGrid(unit.in.x2, unit.in.y2, width, height)

MajorLength == Max2(Abs(unit.in.x2 - unit.in.x1), Abs(unit.in.y2 - unit.in.y1))

\* the coordinate of a cell along the major axis, and along the other one
Major(c) == IF Abs(unit.in.y2 - unit.in.y1) > Abs(unit.in.x2 - unit.in.x1) THEN c[2] ELSE c[1]

Minor(c) == IF Abs(unit.in.y2 - unit.in.y1) > Abs(unit.in.x2 - unit.in.x1) THEN c[1] ELSE c[2]

C20_OneCellPerMajorStep ==
    (LineDrawn /\ BothInside) =>
        /\ Cardinality(unit.out.cells) = MajorLength + 1
        /\ <<unit.in.x1, unit.in.y1>> \in unit.out.cells
        /\ <<unit.in.x2, unit.in.y2>> \in unit.out.cells
        /\ \A c, d \in unit.out.cells : Major(c) = Major(d) => c = d
        /\ \A c, d \in unit.out.cells :
              Major(d) = Major(c) + 1 => Abs(Minor(d) - Minor(c)) <= 1

\* a steep segment inside the viewport, given from its lower end, that changes column
C20_Witness ==
    /\ LineDrawn /\ BothInside
    /\ Abs(unit.in.y2 - unit.in.y1) > Abs(unit.in.x2 - unit.in.x1)
    /\ Abs(unit.in.x2 - unit.in.x1) >= 1
    /\ unit.in.y1 > unit.in.y2
    /\ Cardinality(unit.out.cells) = MajorLength + 1
    /\ MajorLength >= 2


(***************************************************************************)
(* C21: a highway way is drawn iff its class is allowed at the current     *)
(* zoom: motorway, trunk, primary, secondary, tertiary at zoom >= 11;      *)
(* motorway, trunk, primary at zoom 10; motorway, trunk below zoom 10; any *)
(* other class never.  Hence a class drawn at zoom z is drawn at every     *)
(* higher zoom, and the drawn classes are the classes the feature query    *)
(* asks for at that zoom.                                                  *)
(***************************************************************************)
AllowedAt(z) ==
    IF z >= 11 THEN {"motorway", "trunk", "primary", "secondary", "tertiary"}
    ELSE IF z = 10 THEN {"motorway", "trunk", "primary"}
    ELSE {"motorway", "trunk"}

\* element i of the last call is a way classed by its highway tag
HighwayWay(i) ==
    LET e == last.data.elements[i]
    IN  /\ e.type = "way" /\ e.has_tags /\ e.tags.highway # NoTag
        /\ e.tags.waterway \notin {"river", "stream", "canal"}

DrawnAsRoad(i) == \E wr \in writes : wr.elem = i /\ wr.pass = 5 /\ wr.style = "map_road"

\* the cells under the segments of way i, whatever its class
RoadCells(i) ==
    LET g == DrawWaySegments(EmptyGrids(width, height),
                             LineCoords(last.data.elements[i], last.data.elements), 1, "-",
                             "map_road",
                             Ctx(last.data.elements, width, height, last.center.lat,
                                 last.center.lon, zoom, last.tile_bounds), i)
    IN  {<<wr.x, wr.y>> : wr \in g.writes}

C21_RoadsGatedByZoom ==
    /\ Processed =>
          \A i \in 1 .. Len(last.data.elements) :
              HighwayWay(i) =>
                  /\ DrawnAsRoad(i) => last.data.elements[i].tags.highway \in AllowedAt(zoom)
                  /\ (last.data.elements[i].tags.highway \in AllowedAt(zoom)) =>
                        {<<wr.x, wr.y>> : wr \in {v \in writes : v.elem = i}} = RoadCells(i)
    /\ AllowedAt(zoom) = RoadFilter(zoom)
    /\ AllowedAt(zoom) \subseteq AllowedAt(zoom + 1)

\* at zoom 10 a primary road is drawn and the secondary road along the same nodes is not
C21_Witness ==
    /\ Processed /\ zoom = 10
    /\ \E i, j \in 1 .. Len(last.data.elements) :
          /\ HighwayWay(i) /\ HighwayWay(j)
          /\ last.data.elements[i].nodes = last.data.elements[j].nodes
          /\ last.data.elements[i].tags.highway = "primary"
          /\ last.data.elements[j].tags.highway = "secondary"
          /\ DrawnAsRoad(i) /\ RoadCells(j) # {} /\ ~DrawnAsRoad(j)


(***************************************************************************)
(* C22: a place node is labelled iff it has a non-empty name and passes    *)
(* the zoom gate: city or town at zoom >= 10; city only at zoom 7 to 9;    *)
(* city with population >= 100000 only at zoom 6; nothing below zoom 6.    *)
(* (Stated for the place nodes whose anchor projects into the viewport.)   *)
(***************************************************************************)
PlaceGate(z, tags) ==
    IF z >= 10 THEN tags.place \in {"city", "town"}
    ELSE IF z >= 7 THEN tags.place = "city"
    ELSE IF z = 6 THEN tags.place = "city" /\ tags.population_ok /\ tags.population >= 100000
    ELSE FALSE

PlaceNodeAt(i) ==
    LET e == last.data.elements[i]
    IN  e.type = "node" /\ e.has_tags /\ e.tags.place # NoTag

Anchor(i) ==
    ProjectCoords(last.data.elements[i].lat, last.data.elements[i].lon, last.center.lat,
                  last.center.lon, width, height, zoom, last.tile_bounds)

AnchorInside(i) == Anchor(i).ok /\ CellInGrid(Anchor(i).x, Anchor(i).y, width, height)

Labelled(i) == \E wr \in writes : wr.elem = i /\ wr.pass = 6

LabelledIffGated(i) ==
    Labelled(i) <=>
        (Len(last.data.elements[i].tags.name) > 0 /\ PlaceGate(zoom, last.data.elements[i].tags))

C22_LabelsGatedByZoom ==
    Attempted =>
        \A i \in 1 .. Len(last.data.elements) :
            (PlaceNodeAt(i) /\ AnchorInside(i)) => LabelledIffGated(i)

\* the same for the calls in which every population tag read is a number
C22_LabelsGatedWhenParsed ==
    Processed =>
        \A i \in 1 .. Len(last.data.elements) :
            (PlaceNodeAt(i) /\ AnchorInside(i)) => LabelledIffGated(i)

\* zoom 6: the city of 100000 is labelled, the city of 99999 is not
C22_Witness ==
    /\ Processed /\ zoom = 6
    /\ \E i, j \in 1 .. Len(last.data.elements) :
          /\ PlaceNodeAt(i) /\ PlaceNodeAt(j) /\ AnchorInside(i) /\ AnchorInside(j)
          /\ last.data.elements[i].tags.population = 100000 /\ Labelled(i)
          /\ last.data.elements[j].tags.population = 99999 /\ ~Labelled(j)


(***************************************************************************)
(* C23: a label of length L whose anchor projects to an in-viewport cell   *)
(* (x, y) is centred on x: its i-th character (i from 0) is written at     *)
(* column x - floor(L/2) + i of row y, characters whose column falls       *)
(* outside [0, width) are dropped, and no other row is touched.            *)
(***************************************************************************)
\* element i of the last call is a place node that the label pass draws
LabelDrawn(i) ==
    /\ PlaceNodeAt(i) /\ AnchorInside(i)
    /\ Len(last.data.elements[i].tags.name) > 0
    /\ PlaceGate(zoom, last.data.elements[i].tags)

\* the characters written for element i, as <<column, row, character>>
LabelWrites(i) == {<<wr.x, wr.y, wr.ch>> : wr \in {v \in writes : v.elem = i /\ v.pass = 6}}

\* the characters of the name of element i laid out from column `first` on row y, those
\* outside the grid dropped
LaidOutFrom(i, first, y) ==
    LET name == last.data.elements[i].tags.name
    IN  {<<first + (k - 1), y, name[k]>> :
            k \in {n \in 1 .. Len(name) : 0 <= first + (n - 1) /\ first + (n - 1) < width}}

RiverWay(i) ==
    LET e == last.data.elements[i]
    IN  e.type = "way" /\ e.has_tags /\ IsRiver(e.tags)

C24_RiversNeverFilled ==
    Processed =>
        \A i \in 1 .. Len(last.data.elements) :
            RiverWay(i) => \A wr \in writes : wr.elem = i => wr.style = "map_water"

\* the same for the ways tagged waterway=river and nothing else
C24_WaterwayRiversUnfilled ==
    Processed =>
        \A i \in 1 .. Len(last.data.elements) :
            (RiverWay(i) /\ last.data.elements[i].tags.natural = NoTag
                         /\ last.data.elements[i].tags.water = NoTag) =>
                \A wr \in writes : wr.elem = i => wr.style = "map_water"


(***************************************************************************)
(* C25: the feature-query cache, keyed by (latitude, longitude, radius,    *)
(* zoom), has a 24-hour time-to-live: a fetch whose key has a readable     *)
(* entry younger than 24 h returns that entry without a network request;   *)
(* otherwise a request is made, a successful response is stored under the  *)
(* key and returned, and a failed request returns None leaving any         *)
(* existing entry unchanged.                                               *)
(***************************************************************************)
Fetched == cache.fetched.done

\* the entry the fetch found under its key was readable and younger than 24 hours
FreshEntry ==
    /\ cache.fetched.before.content \notin {"absent", "torn"}
    /\ cache.fetched.at - cache.fetched.before.mtime < 24

EntryNow == EntryAt(cache.files, cache.fetched.path)

ServedFromCache ==
    /\ ~cache.fetched.requested
    /\ cache.fetched.result = cache.fetched.before.content
    /\ EntryNow = cache.fetched.before

FailureLeavesEntry ==
    cache.fetched.net = "fail" => cache.fetched.result = "None" /\ EntryNow = cache.fetched.before

C25_CacheTimeToLive ==
    Fetched =>
        /\ FreshEntry => ServedFromCache
        /\ ~FreshEntry =>
              /\ cache.fetched.requested
              /\ cache.fetched.net \in Responses =>
                    /\ cache.fetched.result = cache.fetched.net
                    /\ EntryNow = [mtime |-> cache.fetched.at, content |-> cache.fetched.net]
              /\ FailureLeavesEntry

\* C25 with the write of the entry allowed to fail: the response is returned all the same;
\* the entry is the response when the write succeeded, the old entry when the file could
\* not be opened, and an unreadable file when the dump broke off
C25_CacheTimeToLiveUnlessWriteFails ==
    Fetched =>
        /\ FreshEntry => ServedFromCache
        /\ ~FreshEntry =>
              /\ cache.fetched.requested
              /\ cache.fetched.net \in Responses =>
                    /\ cache.fetched.result = cache.fetched.net
                    /\ cache.fetched.write = "ok" =>
                          EntryNow = [mtime |-> cache.fetched.at, content |-> cache.fetched.net]
                    /\ cache.fetched.write = "fail" => EntryNow = cache.fetched.before
                    /\ cache.fetched.write = "torn" =>
                          EntryNow = [mtime |-> cache.fetched.at, content |-> "torn"]
              /\ FailureLeavesEntry

\* an entry of exactly 24 hours is refetched and replaced by the new response
C25_Witness ==
    /\ Fetched
    /\ cache.fetched.before.content = "v1"
    /\ cache.fetched.at - cache.fetched.before.mtime = 24
    /\ cache.fetched.requested
    /\ cache.fetched.result = "v2"
    /\ EntryNow = [mtime |-> cache.fetched.at, content |-> "v2"]


(***************************************************************************)
(* C26: a cell inside both a water polygon and an island or natural=land   *)
(* polygon, and covered by no feature of a later pass, has style           *)
(* 'map_land' and glyph ' ' in the rasterized grid, whatever the order of  *)
(* the two elements in the input list.                                     *)
(***************************************************************************)
\* cell c was filled for a water body / for an island or natural=land element
InWater(c) == \E wr \in WritesAt(c) : wr.pass = 1

InIsland(c) ==
    \E wr \in WritesAt(c) :
        /\ wr.pass = 2
        /\ \/ last.data.elements[wr.elem].tags.place = "island"
           \/ last.data.elements[wr.elem].tags.natural = "land"

Uncovered(c) == \A wr \in WritesAt(c) : wr.pass \in {1, 2}

C26_LandCutOutOfWater ==
    Processed =>
        \A c \in Cells(width, height) :
            (InWater(c) /\ InIsland(c) /\ Uncovered(c)) =>
                style_map[c] = "map_land" /\ road_map[c] = " "

\* the land element comes first in the list, the water element after it, and a cell of
\* both is land
C26_Witness ==
    /\ Processed
    /\ \E c \in Cells(width, height) :
          /\ InWater(c) /\ InIsland(c) /\ Uncovered(c)
          /\ style_map[c] = "map_land"
          /\ \E a, b \in WritesAt(c) : a.pass = 2 /\ b.pass = 1 /\ a.elem < b.elem


(***************************************************************************)
(* C30: within one rasterize call a geographic point projects to the same  *)
(* grid cell whichever feature class it belongs to: a place label and a    *)
(* road vertex at the same latitude/longitude land on the same cell, with  *)
(* tile bounds and without, at every zoom.  (Observed on the grid: the     *)
(* cell at which a drawn label is anchored is a cell written by every      *)
(* drawn road that has a vertex at the label's coordinates.)               *)
(***************************************************************************)
\* way j has a vertex at the coordinates of node i
VertexAt(j, i) ==
    \E k \in 1 .. Len(last.data.elements[j].nodes) :
        /\ last.data.elements[j].nodes[k] \in NodeIds(last.data.elements)
        /\ LookupNode(last.data.elements, last.data.elements[j].nodes[k]).lat =
              last.data.elements[i].lat
        /\ LookupNode(last.data.elements, last.data.elements[j].nodes[k]).lon =
              last.data.elements[i].lon

RoadThroughAnchor(j, i) ==
    \E wr \in writes : wr.elem = j /\ wr.pass = 5 /\ wr.x = Anchor(i).x /\ wr.y = Anchor(i).y

C30_SameProjection ==
    Processed =>
        \A i, j \in 1 .. Len(last.data.elements) :
            (LabelDrawn(i) /\ HighwayWay(j) /\ DrawnAsRoad(j) /\ VertexAt(j, i)) =>
                RoadThroughAnchor(j, i)

\* the same for the calls without tile bounds
C30_SameProjectionWithoutTileBounds ==
    (Processed /\ ~last.tile_bounds.given) =>
        \A i, j \in 1 .. Len(last.data.elements) :
            (LabelDrawn(i) /\ HighwayWay(j) /\ DrawnAsRoad(j) /\ VertexAt(j, i)) =>
                RoadThroughAnchor(j, i)

\* a label and a road sharing a point, both drawn, in a call without tile bounds
C30_Witness ==
    /\ Processed /\ ~last.tile_bounds.given
    /\ \E i, j \in 1 .. Len(last.data.elements) :
            LabelDrawn(i) /\ HighwayWay(j) /\ DrawnAsRoad(j) /\ VertexAt(j, i)

(***************************************************************************)
(* C27: at any time at most one periodic weather-refresh alarm is pending, *)
(* after any sequence of timer firings, Retry presses in the error dialog  *)
(* and settings saves.                                                     *)
(***************************************************************************)
C27_SingleRefreshAlarm == app.running => app.alarms <= 1

(***************************************************************************)
(* C28: when Retry is pressed in the error dialog and the retried update   *)
(* fails again, the error dialog raised by that failure is the active      *)
(* widget once the handler has returned; the main view replaces the dialog *)
(* only when the retry succeeded.                                          *)
(***************************************************************************)
\* the last call of update_weather was made by the Retry button and reported an error
RetryFailed == app.running /\ app.by = "retry" /\ app.outcome \in Reporting

C28_FailedRetryKeepsDialog == RetryFailed => app.widget = "error"

(***************************************************************************)
(* C29: when saving the settings fails, the 'Error saving settings' dialog *)
(* is still the active widget after the save handler has returned; it is   *)
(* not replaced by the main view.                                          *)
(***************************************************************************)
\* the last save failed and its dialog has not been answered
SaveFailed == app.running /\ app.save = "failed"

C29_SaveErrorStays == SaveFailed => app.widget = "error"

\* the same for the SettingsDialog defined in TermWeather.py
C29_SaveErrorStaysInFile == (SaveFailed /\ env.kind = "app") => app.widget = "error"

C29_Witness == SaveFailed /\ env.kind = "app" /\ app.widget = "error"

=============================================================================
